---- MODULE Spec2Model ----
(***************************************************************************)
(* Dato DRUM web app: the sample upload queue (stores/sampleUpload) and    *)
(* the MIDI Sample Dump Standard transfer (services/sdsProtocol).          *)
(*                                                                         *)
(* JavaScript runs one task at a time.  An action of this model is one     *)
(* synchronous stretch of code: a call made by the UI, a timer callback, a *)
(* MIDI message callback, or the continuation of an async function after   *)
(* an await.  `thread` names the startQueue invocation whose continuation  *)
(* is queued as a microtask; while it is not 0 nothing else can run,       *)
(* because microtasks run before the next task.                            *)
(***************************************************************************)
EXTENDS Integers, Sequences, FiniteSets, TLC

\* ---- bounds of the model ----
MaxItems == 2        \* upload ids generated by generateUploadId
MaxRuns == 2         \* startQueue invocations that can be live at once
MaxPackets == 1      \* data packets of the longest PCM buffer
MaxNaks == 2         \* NAK replies the device gives within one observed session
LongPackets == 130   \* data packets of the long buffer of an observed session

\* ---- program constants ----
MinSlot == 30
MaxSlot == 61
PacketBytes == 80
FullProgress == 1000     \* progress is kept in tenths of a percent
HeaderProgress == 50
PACKET_TIMEOUT == 20
HEADER_TIMEOUT == 2000
WaitTimeout == 30000     \* the wait for the final reply after WAIT

VARIABLES
  queue,            \* UploadState.queue
  isUploading,      \* UploadState.isUploading
  currentUploadId,  \* UploadState.currentUploadId (0 is null)
  nextId,           \* ids handed out so far by generateUploadId
  thrown,           \* error raised to the caller by the step just taken
  runs,             \* the live startQueue invocations and their sessions
  thread,           \* run whose continuation is on the microtask queue
  pendingResponse,  \* sdsProtocol.pendingResponse: run owning it, 0 is null
  timers,           \* armed waitForResponse timers per run
  timerMs,          \* delay of the timer a run armed last (0: none armed)
  messageHandler,   \* sdsProtocol.messageHandler is registered
  isConnected,      \* midiState.isConnected (stores/midi.svelte)
  selectedOutput,   \* midiStore.selectedOutput is set (stores/midi)
  selectedInput,    \* midiStore.selectedInput is set (stores/midi)
  wire,             \* frame handed to selectedOutput.send by the step just taken
  reported,         \* SdsProgress handed to onProgress by the step just taken
  hist,             \* what an observer of one session has seen (history only)
  sample,           \* argument of pack16BitSample
  packed,           \* bytes returned by pack16BitSample (<<>>: not called yet)
  args,             \* arguments of the pure function under study
  returned,         \* what it returned (<<>>: not called yet)
  device            \* what the device has received and answered (history only)

vars == <<queue, isUploading, currentUploadId, nextId, thrown, runs, thread,
          pendingResponse, timers, messageHandler, isConnected,
          selectedOutput, selectedInput, wire, reported, timerMs, hist, sample, packed,
          args, returned, device>>

storeVars == <<queue, isUploading, currentUploadId>>
midiVars == <<isConnected, selectedOutput, selectedInput>>
sdsVars == <<pendingResponse, timers, timerMs, messageHandler>>
obsVars == <<hist, sample, packed, args, returned, device>>

Runs == 1..MaxRuns
Slots == {MinSlot - 1, MinSlot, MaxSlot, MaxSlot + 1}
PcmLengths == {PacketBytes * k : k \in 1..MaxPackets}
Replies == {"ack", "nak", "wait", "cancel"}

NoError == ""
NoStatus == ""
NotAudio == "not a supported audio format"
InvalidSlot == "Invalid slot number"
SlotBusy == "Slot is already being uploaded"
NotConnected == "MIDI device not connected"
ProcessingFailed == "Audio processing failed"
NoOutput == "No MIDI output selected"
HeaderRejected == "Header rejected twice"
DeviceCancelled == "Device cancelled transfer - storage may be full"
CancelledByUser == "Cancelled by user"

\* ---- files ----
AudioMimeTypes == {"audio/wav", "audio/wave", "audio/x-wav", "audio/mpeg",
                   "audio/mp3", "audio/ogg", "audio/webm", "audio/flac",
                   "audio/aac", "audio/m4a"}
AudioExtensions == {".wav", ".mp3", ".ogg", ".webm", ".flac", ".aac", ".m4a"}

Files == { [type |-> "audio/x-raw-pcm", ext |-> ".wav"],
           [type |-> "text/plain", ext |-> ".txt"] }

isAudioFile(file) == file.type \in AudioMimeTypes \/ file.ext \in AudioExtensions

\* ---- queue helpers ----
\* An entry keeps id, targetSlot, status, progress and error.  file,
\* processedSize, startTime and endTime are written but never read by the
\* store and are left out.
Active(status) == status \in {"pending", "processing", "uploading"}

Terminal(status) == status \in {"completed", "error"}

\* a check that forgets the entries already being processed or uploaded
existingSlot_pendingOnly(q, targetSlot) ==
  \E i \in DOMAIN q : q[i].targetSlot = targetSlot /\ q[i].status = "pending"

existingSlot(q, targetSlot) ==
  \E i \in DOMAIN q : q[i].targetSlot = targetSlot /\ Active(q[i].status)

NewItem(id, targetSlot) ==
  [id |-> id, targetSlot |-> targetSlot, status |-> "pending",
   progress |-> 0, error |-> NoError]

removeFromQueueState(q, id) ==
  LET Keep(item) == item.id # id IN SelectSeq(q, Keep)

\* a filter that forgets the error entries
clearCompletedState_onlyCompleted(q) ==
  LET Keep(item) == item.status # "completed" IN SelectSeq(q, Keep)

clearCompletedState(q) ==
  LET Keep(item) == item.status # "completed" /\ item.status # "error"
  IN SelectSeq(q, Keep)

updateProgress(q, id, progress, status) ==
  [i \in DOMAIN q |->
     IF q[i].id = id
     THEN [q[i] EXCEPT !.progress = progress,
                       !.status = IF status # NoStatus THEN status ELSE @]
     ELSE q[i]]

updateStatus(q, id, status, error) ==
  [i \in DOMAIN q |->
     IF q[i].id = id
     THEN [q[i] EXCEPT !.status = status,
                       !.error = IF error # NoError THEN error ELSE @,
                       !.progress = IF status = "completed" THEN FullProgress ELSE @]
     ELSE q[i]]

markProcessing(q, id) ==
  [i \in DOMAIN q |->
     IF q[i].id = id THEN [q[i] EXCEPT !.status = "processing"] ELSE q[i]]

cancelQueueState(q) ==
  [i \in DOMAIN q |->
     IF Active(q[i].status)
     THEN [q[i] EXCEPT !.status = "error", !.error = CancelledByUser]
     ELSE q[i]]

\* the pending entries taken newest first
pendingItems_newestFirst(q) ==
  LET Keep(item) == item.status = "pending"
      p == SelectSeq(q, Keep)
  IN [i \in DOMAIN p |-> p[Len(p) + 1 - i]]

pendingItems(q) ==
  LET Keep(item) == item.status = "pending" IN SelectSeq(q, Keep)

\* ---- runs: one record per live startQueue invocation ----
\* pc is the place where the invocation stands:
\*   idle        no invocation uses this record
\*   loop        top of the for loop of startQueue
\*   processing  uploadSample awaits arrayBuffer / processAudioFile
\*   hdr1, hdr2  transferSampleViaSds awaits the reply to the header / resent header
\*   send        top of the while loop of transferSampleViaSds
\*   pkt, fin    awaits the reply to a data packet / the final reply after WAIT
\*   hdr1r, hdr2r, pktr, finr   the awaited promise is resolved with resp
\* cancelledAt is history, not program state: the idx the loop stood at when
\* cancelQueue was first called during this invocation (0: never).
IdleRun ==
  [pc |-> "idle", items |-> <<>>, idx |-> 0, len |-> 0, offset |-> 0,
   packetNum |-> 0, successfulPackets |-> 0, handshaking |-> FALSE,
   headerResponse |-> "", resp |-> "", cancelledAt |-> 0]

Waiting == {"hdr1", "hdr2", "pkt", "fin"}
Resolved == {"hdr1r", "hdr2r", "pktr", "finr"}
InSession == Waiting \cup Resolved \cup {"send"}

NoFrame == [run |-> 0, kind |-> "none", packetNum |-> 0, offset |-> 0]

\* SdsProgress; percentage is kept in tenths of a percent
NoReport ==
  [stage |-> "none", packet |-> 0, totalPackets |-> 0, percentage |-> 0,
   handshaking |-> FALSE]

item(r) == runs[r].items[runs[r].idx]

\* ---- what an observer of one session sees ----
\* first, second   reply (or "timeout") that resolved the wait for the header /
\*                 the resent header
\* lastReply       reply that resolved the wait after the data frame sent last
\*                 ("": none yet)
\* final           reply that resolved the wait after a WAIT to that frame
\* timedOut        a wait for a data packet has timed out
\* naks            NAK replies delivered to waits for data packets
\* headers, data   header / data frames handed to the output
\* awaited         data frames whose send was followed by a wait
\* last            the data frame sent last and successfulPackets at that send
\* unreported      no progress callback has followed the frame sent last
\* outcome         "complete" or the message of the error that ended the session
\* endPackets      successfulPackets when the session ended
NoData == [packetNum |-> 0, offset |-> 0, successfulPackets |-> 0]

NoHistory ==
  [first |-> "", second |-> "", lastReply |-> "", final |-> "", timedOut |-> FALSE, naks |-> 0,
   headers |-> 0, data |-> 0, awaited |-> 0, last |-> NoData,
   unreported |-> FALSE, outcome |-> "", endPackets |-> 0]

\* The device as the transport shows it. Frames are numbered as they are
\* handed to the output.
\* frames       frames sent so far
\* answered     the device is done with the frames up to this one
\* base         frames sent before the header of the session under way
\* strays       replies that resolved a wait created for another frame (up to 2)
\* replyTo, delivered, outstanding, resolved
\*              the step just taken delivered this message, the device's
\*              reply to frame replyTo; a wait was outstanding; it resolved it
NoDevice ==
  [frames |-> 0, answered |-> 0, base |-> 0, strays |-> 0, replyTo |-> 0, delivered |-> <<>>,
   outstanding |-> FALSE, resolved |-> FALSE]

Init ==
  /\ queue = <<>>
  /\ isUploading = FALSE
  /\ currentUploadId = 0
  /\ nextId = 0
  /\ thrown = NoError
  /\ runs = [r \in Runs |-> IdleRun]
  /\ thread = 0
  /\ pendingResponse = 0
  /\ timers = [r \in Runs |-> 0]
  /\ timerMs = [r \in Runs |-> 0]
  /\ messageHandler = FALSE
  /\ isConnected = FALSE
  /\ selectedOutput = FALSE
  /\ selectedInput = FALSE
  /\ wire = NoFrame
  /\ reported = NoReport
  /\ hist = NoHistory
  /\ sample = 0
  /\ packed = <<>>
  /\ args = <<>>
  /\ returned = <<>>
  /\ device = NoDevice

\* ---- sdsProtocol: listener, send, wait ----
initializeSdsListener ==
  messageHandler' = IF selectedInput THEN TRUE ELSE messageHandler

cleanupSdsListener ==
  messageHandler' = IF selectedInput /\ messageHandler THEN FALSE ELSE messageHandler

noSend == wire' = NoFrame

noReport == reported' = NoReport

onProgress(stage, packet, total, percentage, handshaking) ==
  reported' = [stage |-> stage, packet |-> packet, totalPackets |-> total,
               percentage |-> percentage, handshaking |-> handshaking]

noThrow == thrown' = NoError

sendSdsMessage(r, kind, packetNum, offset) ==
  wire' = [run |-> r, kind |-> kind, packetNum |-> packetNum, offset |-> offset]

waitForResponse(r, timeout) ==
  /\ pendingResponse' = r
  /\ timers' = [timers EXCEPT ![r] = @ + 1]
  /\ timerMs' = [timerMs EXCEPT ![r] = timeout]

\* a handler that resolves the wait and leaves its timer armed
clearTimeout_skipped(t, r) == t

clearTimeout(t, r) == [t EXCEPT ![r] = @ - 1]

resume(run, response) ==
  [run EXCEPT !.resp = response,
              !.pc = CASE @ = "hdr1" -> "hdr1r"
                       [] @ = "hdr2" -> "hdr2r"
                       [] @ = "pkt" -> "pktr"
                       [] @ = "fin" -> "finr"
                       [] OTHER -> @]

\* ---- sampleUpload: store calls ----
addToQueueError(q, file, targetSlot) ==
  IF ~isAudioFile(file) THEN NotAudio
  ELSE IF targetSlot < MinSlot \/ targetSlot > MaxSlot THEN InvalidSlot
  ELSE IF existingSlot(q, targetSlot) THEN SlotBusy
  ELSE NoError

FreeRun == CHOOSE r \in Runs : runs[r].pc = "idle" /\ \A o \in Runs : runs[o].pc = "idle" => r <= o

startQueue(q) ==
  IF isUploading \/ Len(pendingItems(q)) = 0
  THEN UNCHANGED <<isUploading, runs, thread>>
  ELSE /\ \E r \in Runs : runs[r].pc = "idle"
       /\ isUploading' = TRUE
       /\ runs' = [runs EXCEPT ![FreeRun] =
                     [IdleRun EXCEPT !.pc = "loop", !.items = pendingItems(q), !.idx = 1]]
       /\ thread' = FreeRun

AddToQueue(file, targetSlot) ==
  /\ thread = 0
  /\ LET err == addToQueueError(queue, file, targetSlot) IN
       IF err # NoError
       THEN /\ thrown' = err
            /\ UNCHANGED <<queue, nextId>>
       ELSE /\ nextId < MaxItems
            /\ nextId' = nextId + 1
            /\ queue' = Append(queue, NewItem(nextId + 1, targetSlot))
            /\ noThrow
  /\ UNCHANGED <<isUploading, currentUploadId, runs, thread, midiVars, sdsVars>> /\ noSend /\ noReport

RemoveFromQueue(id) ==
  /\ thread = 0
  /\ queue' = removeFromQueueState(queue, id)
  /\ noThrow
  /\ UNCHANGED <<isUploading, currentUploadId, nextId, runs, thread, midiVars, sdsVars>> /\ noSend /\ noReport

ClearCompleted ==
  /\ thread = 0
  /\ queue' = clearCompletedState(queue)
  /\ noThrow
  /\ UNCHANGED <<isUploading, currentUploadId, nextId, runs, thread, midiVars, sdsVars>> /\ noSend /\ noReport

StartQueue ==
  /\ thread = 0
  /\ startQueue(queue)
  /\ noThrow
  /\ UNCHANGED <<queue, currentUploadId, nextId, midiVars, sdsVars>> /\ noSend /\ noReport

CancelQueue ==
  /\ thread = 0
  /\ queue' = cancelQueueState(queue)
  /\ isUploading' = FALSE
  /\ currentUploadId' = 0
  /\ cleanupSdsListener
  /\ runs' = [r \in Runs |->
                IF runs[r].pc # "idle" /\ runs[r].cancelledAt = 0
                THEN [runs[r] EXCEPT !.cancelledAt = runs[r].idx]
                ELSE runs[r]]
  /\ noThrow
  /\ UNCHANGED <<nextId, thread, midiVars, pendingResponse, timers, timerMs>> /\ noSend /\ noReport

QuickUpload(file, targetSlot) ==
  /\ thread = 0
  /\ LET err == addToQueueError(queue, file, targetSlot) IN
       IF err # NoError
       THEN /\ thrown' = err
            /\ UNCHANGED <<queue, nextId, isUploading, runs, thread>>
       ELSE /\ nextId < MaxItems
            /\ nextId' = nextId + 1
            /\ queue' = Append(queue, NewItem(nextId + 1, targetSlot))
            /\ noThrow
            /\ startQueue(queue')
  /\ UNCHANGED <<currentUploadId, midiVars, sdsVars>> /\ noSend /\ noReport

\* ---- sampleUpload: uploadSample and the loop of startQueue ----
nextItem(run) ==
  [IdleRun EXCEPT !.pc = "loop", !.items = run.items, !.idx = run.idx + 1,
                  !.cancelledAt = run.cancelledAt]

\* a loop without its try/catch: the error of uploadSample ends startQueue
uploadFailed_uncaught(r, q, message) ==
  /\ queue' = updateStatus(q, item(r).id, "error", message)
  /\ runs' = [runs EXCEPT ![r] = IdleRun]
  /\ thread' = 0

\* a loop that takes the failed item once more
uploadFailed_retried(r, q, message) ==
  /\ queue' = updateStatus(q, item(r).id, "error", message)
  /\ runs' = [runs EXCEPT ![r] = [nextItem(@) EXCEPT !.idx = runs[r].idx]]
  /\ thread' = r

\* the catch block of uploadSample, then the catch block of startQueue
uploadFailed(r, q, message) ==
  /\ queue' = updateStatus(q, item(r).id, "error", message)
  /\ runs' = [runs EXCEPT ![r] = nextItem(@)]
  /\ thread' = r

totalPackets(len) == (len + PacketBytes - 1) \div PacketBytes

Min(a, b) == IF a < b THEN a ELSE b

\* the 'data' report at the end of a turn of the while loop
dataReport(run) ==
  onProgress("data", run.successfulPackets, totalPackets(run.len),
             Min(FullProgress, (run.successfulPackets * FullProgress) \div totalPackets(run.len)),
             run.handshaking)

\* the overall progress uploadSample derives from a 'data' progress report
dataProgress(run) ==
  HeaderProgress +
    (Min(FullProgress, (run.successfulPackets * FullProgress) \div totalPackets(run.len)) * 95) \div 100

\* an advance by the 120 bytes of a packet's payload
advance_byPayload(run) ==
  [run EXCEPT !.successfulPackets = @ + 1, !.offset = @ + 120,
              !.packetNum = @ + 1, !.pc = "send", !.resp = ""]

\* an advance that forgets successfulPackets++
advance_uncounted(run) ==
  [run EXCEPT !.offset = @ + PacketBytes, !.packetNum = @ + 1,
              !.pc = "send", !.resp = ""]

\* an advance that forgets packetNum++
advance_sameNumber(run) ==
  [run EXCEPT !.successfulPackets = @ + 1, !.offset = @ + PacketBytes,
              !.pc = "send", !.resp = ""]

advance(run) ==
  [run EXCEPT !.successfulPackets = @ + 1, !.offset = @ + PacketBytes,
              !.packetNum = @ + 1, !.pc = "send", !.resp = ""]

\* one turn of the for loop: the next item's uploadSample up to its first
\* await, or the end of startQueue
LoopStep(r) ==
  /\ thread = r
  /\ runs[r].pc = "loop"
  /\ IF runs[r].idx <= Len(runs[r].items)
     THEN /\ currentUploadId' = item(r).id
          /\ UNCHANGED isUploading
          /\ IF ~isConnected
             THEN /\ uploadFailed(r, queue, NotConnected)
                  /\ UNCHANGED messageHandler
             ELSE /\ initializeSdsListener
                  /\ queue' = markProcessing(queue, item(r).id)
                  /\ runs' = [runs EXCEPT ![r].pc = "processing"]
                  /\ thread' = 0
     ELSE /\ isUploading' = FALSE
          /\ currentUploadId' = 0
          /\ cleanupSdsListener
          /\ runs' = [runs EXCEPT ![r] = IdleRun]
          /\ thread' = 0
          /\ UNCHANGED queue
  /\ UNCHANGED <<nextId, midiVars, pendingResponse, timers, timerMs>> /\ noSend /\ noReport /\ noThrow

\* the audio is ready (or its processing failed); on success uploadSample
\* goes on into transferSampleViaSds up to the wait for the header reply.
\* Both branches of uploadSample (arrayBuffer of a raw PCM file,
\* processAudioFile of any other) end in one await that yields the PCM bytes
\* or throws; len is the byte length of the PCM.
ProcessDone(r, ok, len) ==
  /\ thread = 0
  /\ runs[r].pc = "processing"
  /\ LET id == item(r).id
         q1 == updateProgress(updateStatus(queue, id, "uploading", NoError),
                              id, 0, "uploading")
     IN IF ~ok
        THEN /\ uploadFailed(r, queue, ProcessingFailed)
             /\ UNCHANGED sdsVars /\ noSend /\ noReport
        ELSE IF item(r).targetSlot < MinSlot \/ item(r).targetSlot > MaxSlot
        THEN /\ uploadFailed(r, q1, InvalidSlot)
             /\ UNCHANGED sdsVars /\ noSend /\ noReport
        ELSE IF ~selectedOutput
        THEN /\ uploadFailed(r, q1, NoOutput)
             /\ UNCHANGED sdsVars /\ noSend /\ noReport
        ELSE /\ sendSdsMessage(r, "header", 0, 0)
             /\ onProgress("header", 0, 0, 0, FALSE)
             /\ queue' = updateProgress(q1, id, HeaderProgress, "uploading")
             /\ waitForResponse(r, HEADER_TIMEOUT)
             /\ runs' = [runs EXCEPT ![r].pc = "hdr1", ![r].len = len]
             /\ UNCHANGED <<thread, messageHandler>>
  /\ UNCHANGED <<isUploading, currentUploadId, nextId, midiVars>> /\ noThrow

\* ---- sdsProtocol: what resolves a wait ----
handleMidiMessage(type) ==
  /\ thread = 0
  /\ messageHandler
  /\ IF pendingResponse # 0
     THEN /\ timers' = clearTimeout(timers, pendingResponse)
          /\ timerMs' = [timerMs EXCEPT ![pendingResponse] = 0]
          /\ runs' = [runs EXCEPT ![pendingResponse] = resume(@, type)]
          /\ thread' = IF runs[pendingResponse].pc \in Waiting THEN pendingResponse ELSE 0
          /\ pendingResponse' = 0
     ELSE UNCHANGED <<timers, timerMs, runs, thread, pendingResponse>>
  /\ UNCHANGED <<storeVars, nextId, midiVars, messageHandler>> /\ noSend /\ noReport /\ noThrow

TimerFire(r) ==
  /\ thread = 0
  /\ timers[r] > 0
  /\ timers' = [timers EXCEPT ![r] = @ - 1]
  /\ timerMs' = [timerMs EXCEPT ![r] = 0]
  /\ pendingResponse' = 0
  /\ runs' = [runs EXCEPT ![r] = resume(@, "timeout")]
  /\ thread' = IF runs[r].pc \in Waiting THEN r ELSE 0
  /\ UNCHANGED <<storeVars, nextId, midiVars, messageHandler>> /\ noSend /\ noReport /\ noThrow

\* ---- sdsProtocol: transferSampleViaSds after each await ----
startStreaming(run, handshaking) ==
  [run EXCEPT !.pc = "send", !.handshaking = handshaking, !.packetNum = 0,
              !.offset = 0, !.successfulPackets = 0, !.resp = "",
              !.headerResponse = ""]

HeaderReply(r) ==
  /\ thread = r
  /\ runs[r].pc = "hdr1r"
  /\ IF runs[r].resp = "nak"
     THEN IF ~selectedOutput
          THEN /\ uploadFailed(r, queue, NoOutput)
               /\ UNCHANGED sdsVars /\ noSend /\ noReport
          ELSE /\ sendSdsMessage(r, "header", 0, 0)
               /\ noReport
               /\ waitForResponse(r, HEADER_TIMEOUT)
               /\ runs' = [runs EXCEPT ![r].pc = "hdr2", ![r].headerResponse = "nak",
                                       ![r].resp = ""]
               /\ thread' = 0
               /\ UNCHANGED <<queue, messageHandler>>
     ELSE /\ runs' = [runs EXCEPT ![r] =
                        startStreaming([@ EXCEPT !.headerResponse = runs[r].resp],
                                       runs[r].resp = "ack")]
          /\ UNCHANGED <<queue, thread, sdsVars>> /\ noSend /\ noReport
  /\ UNCHANGED <<isUploading, currentUploadId, nextId, midiVars>> /\ noThrow

\* a retry that takes a timeout of the resent header for a rejection
HeaderRetryReply_ackOnly(r) ==
  /\ thread = r
  /\ runs[r].pc = "hdr2r"
  /\ IF runs[r].resp # "ack"
     THEN uploadFailed(r, queue, HeaderRejected)
     ELSE /\ runs' = [runs EXCEPT ![r] = startStreaming(@, runs[r].headerResponse = "ack")]
          /\ UNCHANGED <<queue, thread>>
  /\ UNCHANGED <<isUploading, currentUploadId, nextId, midiVars, sdsVars>> /\ noSend /\ noReport /\ noThrow

\* a retry that gives up on a second NAK only
HeaderRetryReply_nakOnly(r) ==
  /\ thread = r
  /\ runs[r].pc = "hdr2r"
  /\ IF runs[r].resp = "nak"
     THEN uploadFailed(r, queue, HeaderRejected)
     ELSE /\ runs' = [runs EXCEPT ![r] = startStreaming(@, runs[r].headerResponse = "ack")]
          /\ UNCHANGED <<queue, thread>>
  /\ UNCHANGED <<isUploading, currentUploadId, nextId, midiVars, sdsVars>> /\ noSend /\ noReport /\ noThrow

HeaderRetryReply(r) ==
  /\ thread = r
  /\ runs[r].pc = "hdr2r"
  /\ IF runs[r].resp # "ack" /\ runs[r].resp # "timeout"
     THEN uploadFailed(r, queue, HeaderRejected)
     ELSE /\ runs' = [runs EXCEPT ![r] = startStreaming(@, runs[r].headerResponse = "ack")]
          /\ UNCHANGED <<queue, thread>>
  /\ UNCHANGED <<isUploading, currentUploadId, nextId, midiVars, sdsVars>> /\ noSend /\ noReport /\ noThrow

\* one turn of the while loop up to its await, or the end of the transfer
\* and of uploadSample
SendPacket(r) ==
  /\ thread = r
  /\ runs[r].pc = "send"
  /\ LET run == runs[r]
         id == item(r).id
     IN IF run.offset < run.len
        THEN IF ~selectedOutput
             THEN /\ uploadFailed(r, queue, NoOutput)
                  /\ UNCHANGED sdsVars /\ noSend /\ noReport
             ELSE /\ sendSdsMessage(r, "data", run.packetNum % 128, run.offset)
                  /\ UNCHANGED messageHandler
                  /\ IF run.handshaking
                     THEN /\ waitForResponse(r, PACKET_TIMEOUT)
                          /\ runs' = [runs EXCEPT ![r].pc = "pkt"]
                          /\ thread' = 0
                          /\ noReport
                          /\ UNCHANGED queue
                     ELSE /\ runs' = [runs EXCEPT ![r] = advance(@)]
                          /\ dataReport(advance(run))
                          /\ queue' = updateProgress(queue, id, dataProgress(advance(run)),
                                                     "uploading")
                          /\ UNCHANGED <<thread, pendingResponse, timers, timerMs>>
        ELSE /\ queue' = updateStatus(updateProgress(queue, id, FullProgress, "uploading"),
                                      id, "completed", NoError)
             /\ runs' = [runs EXCEPT ![r] = nextItem(@)]
             /\ onProgress("complete", run.successfulPackets, totalPackets(run.len),
                           FullProgress, run.handshaking)
             /\ UNCHANGED <<thread, sdsVars>> /\ noSend
  /\ UNCHANGED <<isUploading, currentUploadId, nextId, midiVars>> /\ noThrow

advanced(r, handshaking) ==
  /\ runs' = [runs EXCEPT ![r] = [advance(@) EXCEPT !.handshaking = handshaking]]
  /\ queue' = updateProgress(queue, item(r).id, dataProgress(advance(runs[r])), "uploading")
  /\ dataReport([advance(runs[r]) EXCEPT !.handshaking = handshaking])
  /\ UNCHANGED <<thread, sdsVars>> /\ noSend

retrySamePacket(r) ==
  /\ runs' = [runs EXCEPT ![r].pc = "send", ![r].resp = ""]
  /\ UNCHANGED <<queue, thread, sdsVars>> /\ noSend /\ noReport

\* a WAIT answered by one more wait of PACKET_TIMEOUT
PacketReply_shortWait(r) ==
  /\ thread = r
  /\ runs[r].pc = "pktr"
  /\ CASE runs[r].resp = "ack" -> advanced(r, runs[r].handshaking)
       [] runs[r].resp = "nak" -> retrySamePacket(r)
       [] runs[r].resp = "wait" ->
            /\ waitForResponse(r, PACKET_TIMEOUT)
            /\ runs' = [runs EXCEPT ![r].pc = "fin", ![r].resp = ""]
            /\ thread' = 0
            /\ UNCHANGED <<queue, messageHandler>> /\ noSend /\ noReport
       [] runs[r].resp = "cancel" ->
            /\ uploadFailed(r, queue, DeviceCancelled)
            /\ UNCHANGED sdsVars /\ noSend /\ noReport
       [] OTHER -> advanced(r, FALSE)
  /\ UNCHANGED <<isUploading, currentUploadId, nextId, midiVars>> /\ noThrow

\* a timeout that advances and stays in handshaking mode
PacketReply_timeoutKeepsMode(r) ==
  /\ thread = r
  /\ runs[r].pc = "pktr"
  /\ CASE runs[r].resp = "ack" -> advanced(r, runs[r].handshaking)
       [] runs[r].resp = "nak" -> retrySamePacket(r)
       [] runs[r].resp = "wait" ->
            /\ waitForResponse(r, WaitTimeout)
            /\ runs' = [runs EXCEPT ![r].pc = "fin", ![r].resp = ""]
            /\ thread' = 0
            /\ UNCHANGED <<queue, messageHandler>> /\ noSend /\ noReport
       [] runs[r].resp = "cancel" ->
            /\ uploadFailed(r, queue, DeviceCancelled)
            /\ UNCHANGED sdsVars /\ noSend /\ noReport
       [] OTHER -> advanced(r, runs[r].handshaking)
  /\ UNCHANGED <<isUploading, currentUploadId, nextId, midiVars>> /\ noThrow

PacketReply(r) ==
  /\ thread = r
  /\ runs[r].pc = "pktr"
  /\ CASE runs[r].resp = "ack" -> advanced(r, runs[r].handshaking)
       [] runs[r].resp = "nak" -> retrySamePacket(r)
       [] runs[r].resp = "wait" ->
            /\ waitForResponse(r, WaitTimeout)
            /\ runs' = [runs EXCEPT ![r].pc = "fin", ![r].resp = ""]
            /\ thread' = 0
            /\ UNCHANGED <<queue, messageHandler>> /\ noSend /\ noReport
       [] runs[r].resp = "cancel" ->
            /\ uploadFailed(r, queue, DeviceCancelled)
            /\ UNCHANGED sdsVars /\ noSend /\ noReport
       [] OTHER -> advanced(r, FALSE)
  /\ UNCHANGED <<isUploading, currentUploadId, nextId, midiVars>> /\ noThrow

\* a final reply that answers a further WAIT with a further wait
FinalReply_waitsAgain(r) ==
  /\ thread = r
  /\ runs[r].pc = "finr"
  /\ CASE runs[r].resp = "ack" -> advanced(r, runs[r].handshaking)
       [] runs[r].resp = "nak" -> retrySamePacket(r)
       [] runs[r].resp = "wait" ->
            /\ waitForResponse(r, WaitTimeout)
            /\ runs' = [runs EXCEPT ![r].pc = "fin", ![r].resp = ""]
            /\ thread' = 0
            /\ UNCHANGED <<queue, messageHandler>> /\ noSend /\ noReport
       [] runs[r].resp = "cancel" ->
            /\ uploadFailed(r, queue, DeviceCancelled)
            /\ UNCHANGED sdsVars /\ noSend /\ noReport
       [] OTHER -> advanced(r, FALSE)
  /\ UNCHANGED <<isUploading, currentUploadId, nextId, midiVars>> /\ noThrow

\* a final reply whose CANCEL is taken for a timeout
FinalReply_cancelIgnored(r) ==
  /\ thread = r
  /\ runs[r].pc = "finr"
  /\ CASE runs[r].resp = "ack" -> advanced(r, runs[r].handshaking)
       [] runs[r].resp = "nak" -> retrySamePacket(r)
       [] OTHER -> advanced(r, FALSE)
  /\ UNCHANGED <<isUploading, currentUploadId, nextId, midiVars>> /\ noThrow

FinalReply(r) ==
  /\ thread = r
  /\ runs[r].pc = "finr"
  /\ CASE runs[r].resp = "ack" -> advanced(r, runs[r].handshaking)
       [] runs[r].resp = "nak" -> retrySamePacket(r)
       [] runs[r].resp = "cancel" ->
            /\ uploadFailed(r, queue, DeviceCancelled)
            /\ UNCHANGED sdsVars /\ noSend /\ noReport
       [] OTHER -> advanced(r, FALSE)
  /\ UNCHANGED <<isUploading, currentUploadId, nextId, midiVars>> /\ noThrow

\* ---- the MIDI stores, as far as the upload path reads them ----
SetDeviceConnected ==
  /\ thread = 0
  /\ ~isConnected
  /\ isConnected' = TRUE
  /\ UNCHANGED <<storeVars, nextId, runs, thread, sdsVars, selectedOutput, selectedInput>> /\ noSend /\ noReport /\ noThrow

SetDeviceDisconnected ==
  /\ thread = 0
  /\ isConnected
  /\ isConnected' = FALSE
  /\ UNCHANGED <<storeVars, nextId, runs, thread, sdsVars, selectedOutput, selectedInput>> /\ noSend /\ noReport /\ noThrow

ConnectDevice(input) ==
  /\ thread = 0
  /\ ~selectedOutput
  /\ selectedOutput' = TRUE
  /\ selectedInput' = input
  /\ UNCHANGED <<storeVars, nextId, runs, thread, sdsVars, isConnected>> /\ noSend /\ noReport /\ noThrow

DisconnectDevice ==
  /\ thread = 0
  /\ selectedOutput
  /\ selectedOutput' = FALSE
  /\ selectedInput' = FALSE
  /\ UNCHANGED <<storeVars, nextId, runs, thread, sdsVars, isConnected>> /\ noSend /\ noReport /\ noThrow

Next ==
  \/ \E file \in Files, targetSlot \in Slots : AddToQueue(file, targetSlot) /\ UNCHANGED obsVars
  \/ \E file \in Files, targetSlot \in Slots : QuickUpload(file, targetSlot) /\ UNCHANGED obsVars
  \/ \E id \in 1..MaxItems : RemoveFromQueue(id) /\ UNCHANGED obsVars
  \/ ClearCompleted /\ UNCHANGED obsVars
  \/ StartQueue /\ UNCHANGED obsVars
  \/ CancelQueue /\ UNCHANGED obsVars
  \/ \E r \in Runs : LoopStep(r) /\ UNCHANGED obsVars
  \/ \E r \in Runs, ok \in BOOLEAN, len \in PcmLengths : ProcessDone(r, ok, len) /\ UNCHANGED obsVars
  \/ \E type \in Replies : handleMidiMessage(type) /\ UNCHANGED obsVars
  \/ \E r \in Runs : TimerFire(r) /\ UNCHANGED obsVars
  \/ \E r \in Runs : HeaderReply(r) /\ UNCHANGED obsVars
  \/ \E r \in Runs : HeaderRetryReply(r) /\ UNCHANGED obsVars
  \/ \E r \in Runs : SendPacket(r) /\ UNCHANGED obsVars
  \/ \E r \in Runs : PacketReply(r) /\ UNCHANGED obsVars
  \/ \E r \in Runs : FinalReply(r) /\ UNCHANGED obsVars
  \/ SetDeviceConnected /\ UNCHANGED obsVars
  \/ SetDeviceDisconnected /\ UNCHANGED obsVars
  \/ \E input \in BOOLEAN : ConnectDevice(input) /\ UNCHANGED obsVars
  \/ DisconnectDevice /\ UNCHANGED obsVars

Spec == Init /\ [][Next]_vars

\* The uploads the components make: every entry is added with quickUpload
\* (Voice: handleDrop, handleFileSelect, the recorder), nothing calls
\* addToQueue or startQueue on its own.
NextQuick ==
  \/ \E file \in Files, targetSlot \in Slots : QuickUpload(file, targetSlot) /\ UNCHANGED obsVars
  \/ \E id \in 1..MaxItems : RemoveFromQueue(id) /\ UNCHANGED obsVars
  \/ ClearCompleted /\ UNCHANGED obsVars
  \/ CancelQueue /\ UNCHANGED obsVars
  \/ \E r \in Runs : LoopStep(r) /\ UNCHANGED obsVars
  \/ \E r \in Runs, ok \in BOOLEAN, len \in PcmLengths : ProcessDone(r, ok, len) /\ UNCHANGED obsVars
  \/ \E type \in Replies : handleMidiMessage(type) /\ UNCHANGED obsVars
  \/ \E r \in Runs : TimerFire(r) /\ UNCHANGED obsVars
  \/ \E r \in Runs : HeaderReply(r) /\ UNCHANGED obsVars
  \/ \E r \in Runs : HeaderRetryReply(r) /\ UNCHANGED obsVars
  \/ \E r \in Runs : SendPacket(r) /\ UNCHANGED obsVars
  \/ \E r \in Runs : PacketReply(r) /\ UNCHANGED obsVars
  \/ \E r \in Runs : FinalReply(r) /\ UNCHANGED obsVars
  \/ SetDeviceConnected /\ UNCHANGED obsVars
  \/ SetDeviceDisconnected /\ UNCHANGED obsVars
  \/ \E input \in BOOLEAN : ConnectDevice(input) /\ UNCHANGED obsVars
  \/ DisconnectDevice /\ UNCHANGED obsVars

QuickSpec == Init /\ [][NextQuick]_vars

\* ---- one session observed from outside ----
\* The session of the first startQueue invocation on a queue of one entry:
\* the state after connectDevice, _setDeviceConnected, quickUpload and the
\* first turn of the loop.  From there only the session itself, the device
\* (replies, timers) and the transport (connectDevice, disconnectDevice) act.
SessionRun == 1

SessionLengths == {PacketBytes, PacketBytes + 20, 10 * PacketBytes, LongPackets * PacketBytes}

SessionInit ==
  /\ queue = <<[NewItem(1, MinSlot) EXCEPT !.status = "processing"]>>
  /\ isUploading = TRUE
  /\ currentUploadId = 1
  /\ nextId = 1
  /\ thrown = NoError
  /\ runs = [r \in Runs |->
               IF r = SessionRun
               THEN [IdleRun EXCEPT !.pc = "processing",
                                    !.items = <<NewItem(1, MinSlot)>>, !.idx = 1]
               ELSE IdleRun]
  /\ thread = 0
  /\ pendingResponse = 0
  /\ timers = [r \in Runs |-> 0]
  /\ timerMs = [r \in Runs |-> 0]
  /\ messageHandler = TRUE
  /\ isConnected = TRUE
  /\ selectedOutput = TRUE
  /\ selectedInput = TRUE
  /\ wire = NoFrame
  /\ reported = NoReport
  /\ hist = NoHistory
  /\ sample = 0
  /\ packed = <<>>
  /\ args = <<>>
  /\ returned = <<>>
  /\ device = NoDevice

sessionEntry(q) == CHOOSE e \in {q[i] : i \in DOMAIN q} : e.id = 1

Observed ==
  LET old == runs[SessionRun]
      new == runs'[SessionRun]
      reply == new.resp
      sent == IF wire'.run = SessionRun /\ wire'.kind = "header"
              THEN [hist EXCEPT !.headers = @ + 1,
                                !.unreported = reported' = NoReport]
              ELSE IF wire'.run = SessionRun /\ wire'.kind = "data"
              THEN [hist EXCEPT !.data = @ + 1,
                                !.awaited = IF timers'[SessionRun] > timers[SessionRun]
                                            THEN @ + 1 ELSE @,
                                !.lastReply = "",
                                !.final = "",
                                !.unreported = reported' = NoReport,
                                !.last = [packetNum |-> wire'.packetNum,
                                          offset |-> wire'.offset,
                                          successfulPackets |-> old.successfulPackets]]
              ELSE [hist EXCEPT !.unreported = @ /\ reported' = NoReport]
      heard == IF old.pc \in Waiting /\ new.pc \in Resolved
               THEN CASE old.pc = "hdr1" -> [sent EXCEPT !.first = reply]
                      [] old.pc = "hdr2" -> [sent EXCEPT !.second = reply]
                      [] OTHER -> [sent EXCEPT !.lastReply = IF old.pc = "pkt" THEN reply ELSE @,
                                               !.final = IF old.pc = "fin" THEN reply ELSE @,
                                               !.timedOut = @ \/ reply = "timeout",
                                               !.naks = IF reply = "nak" THEN @ + 1 ELSE @]
               ELSE sent
  IN IF old.pc \in InSession \cup {"processing"} /\ new.pc = "loop"
     THEN [heard EXCEPT !.outcome = IF sessionEntry(queue').status = "completed"
                                    THEN "complete"
                                    ELSE sessionEntry(queue').error,
                        !.endPackets = old.successfulPackets]
     ELSE heard

observe == hist' = Observed /\ UNCHANGED <<sample, packed, args, returned, device>>

SessionNext ==
  \/ \E ok \in BOOLEAN, len \in SessionLengths : ProcessDone(SessionRun, ok, len) /\ observe
  \/ \E type \in Replies :
       (type = "nak" => hist.naks < MaxNaks) /\ handleMidiMessage(type) /\ observe
  \/ TimerFire(SessionRun) /\ observe
  \/ HeaderReply(SessionRun) /\ observe
  \/ HeaderRetryReply(SessionRun) /\ observe
  \/ SendPacket(SessionRun) /\ observe
  \/ PacketReply(SessionRun) /\ observe
  \/ FinalReply(SessionRun) /\ observe
  \/ LoopStep(SessionRun) /\ observe
  \/ \E input \in BOOLEAN : ConnectDevice(input) /\ observe
  \/ DisconnectDevice /\ observe

SessionSpec == SessionInit /\ [][SessionNext]_vars

\* The same session with what the event loop guarantees: a queued
\* continuation runs (a microtask, or the promise of the audio decoding
\* settling), and an armed timer fires unless a reply clears it first.
SessionContinues ==
  \/ \E ok \in BOOLEAN, len \in SessionLengths : ProcessDone(SessionRun, ok, len) /\ observe
  \/ HeaderReply(SessionRun) /\ observe
  \/ HeaderRetryReply(SessionRun) /\ observe
  \/ SendPacket(SessionRun) /\ observe
  \/ PacketReply(SessionRun) /\ observe
  \/ FinalReply(SessionRun) /\ observe
  \/ LoopStep(SessionRun) /\ observe

SessionFairSpec ==
  /\ SessionSpec
  /\ WF_vars(SessionContinues)
  /\ WF_vars(TimerFire(SessionRun) /\ observe)

\* ---- sdsProtocol: pack16BitSample on every sample ----
Samples == -32768..32767

\* a packing that forgets the conversion to unsigned
pack16BitSample_signed(s) ==
  << (s \div 512) % 128, (s \div 4) % 128, (s * 32) % 128 >>

pack16BitSample(s) ==
  LET unsignedSample == s + 32768
  IN << (unsignedSample \div 512) % 128,
        (unsignedSample \div 4) % 128,
        (unsignedSample * 32) % 128 >>

PackInit ==
  /\ queue = <<>>
  /\ isUploading = FALSE
  /\ currentUploadId = 0
  /\ nextId = 0
  /\ thrown = NoError
  /\ runs = [r \in Runs |-> IdleRun]
  /\ thread = 0
  /\ pendingResponse = 0
  /\ timers = [r \in Runs |-> 0]
  /\ timerMs = [r \in Runs |-> 0]
  /\ messageHandler = FALSE
  /\ isConnected = FALSE
  /\ selectedOutput = FALSE
  /\ selectedInput = FALSE
  /\ wire = NoFrame
  /\ reported = NoReport
  /\ hist = NoHistory
  /\ sample \in Samples
  /\ packed = <<>>
  /\ args = <<>>
  /\ returned = <<>>
  /\ device = NoDevice

Pack ==
  /\ packed = <<>>
  /\ packed' = pack16BitSample(sample)
  /\ UNCHANGED <<storeVars, nextId, thrown, runs, thread, sdsVars, midiVars, wire,
                 reported, hist, sample, args, returned, device>>

PackSpec == PackInit /\ [][Pack]_vars

\* ---- the program at rest, for the specifications of its pure functions ----
Resting ==
  /\ queue = <<>>
  /\ isUploading = FALSE
  /\ currentUploadId = 0
  /\ nextId = 0
  /\ thrown = NoError
  /\ runs = [r \in Runs |-> IdleRun]
  /\ thread = 0
  /\ pendingResponse = 0
  /\ timers = [r \in Runs |-> 0]
  /\ timerMs = [r \in Runs |-> 0]
  /\ messageHandler = FALSE
  /\ isConnected = FALSE
  /\ selectedOutput = FALSE
  /\ selectedInput = FALSE
  /\ wire = NoFrame
  /\ reported = NoReport
  /\ hist = NoHistory
  /\ sample = 0
  /\ packed = <<>>
  /\ device = NoDevice

restVars == <<storeVars, nextId, thrown, runs, thread, sdsVars, midiVars, wire, reported,
              hist, sample, packed, device>>

\* ---- sdsProtocol: calculateChecksum ----
MIDI_NON_REALTIME_ID == 126
SYSEX_CHANNEL == 101
SDS_DATA_PACKET == 2
PayloadBytes == 120

\* the ^ of two bytes
BitXor[a \in 0..255, b \in 0..255] ==
  IF a = 0 THEN b
  ELSE IF b = 0 THEN a
  ELSE ((a + b) % 2) + 2 * BitXor[a \div 2, b \div 2]

\* the loop over dataBytes, checksum ^= byte, left to right: over the range
\* lo..hi it is the loop over the first half of the range, then the loop over
\* the second half from where the first ended
XorAll(checksum, dataBytes) ==
  LET loop[c \in 0..255, lo \in 1..(Len(dataBytes) + 1), hi \in 0..Len(dataBytes)] ==
        IF lo > hi THEN c
        ELSE IF lo = hi THEN BitXor[c, dataBytes[lo]]
        ELSE loop[loop[c, lo, (lo + hi) \div 2], ((lo + hi) \div 2) + 1, hi]
  IN loop[checksum, 1, Len(dataBytes)]

\* a checksum that leaves the packet number out
calculateChecksum_noPacketNum(packetNum, dataBytes) ==
  XorAll(BitXor[BitXor[MIDI_NON_REALTIME_ID, SYSEX_CHANNEL], SDS_DATA_PACKET],
         dataBytes) % 128

calculateChecksum(packetNum, dataBytes) ==
  XorAll(BitXor[BitXor[BitXor[MIDI_NON_REALTIME_ID, SYSEX_CHANNEL], SDS_DATA_PACKET],
                packetNum],
         dataBytes) % 128

PacketNums == {0, 1, 64, 127}
Fills == {0, 85, 127}
Positions == {1, 60, PayloadBytes}
Bytes7 == 0..127

ChecksumInit ==
  /\ Resting
  /\ \E n \in PacketNums, fill \in Fills :
       args = <<n, [i \in 1..PayloadBytes |-> fill]>>
  /\ returned = <<>>

\* the checksum of the packet as it is
Checksum ==
  /\ returned = <<>>
  /\ returned' = <<calculateChecksum(args[1], args[2])>>
  /\ UNCHANGED <<restVars, args>>

\* the packet with one payload byte changed, and its checksum
ChecksumOtherByte(p, v) ==
  /\ Len(returned) = 1
  /\ args[2][p] # v
  /\ args' = <<args[1], [args[2] EXCEPT ![p] = v]>>
  /\ returned' = Append(returned, calculateChecksum(args'[1], args'[2]))
  /\ UNCHANGED restVars

\* the packet under another packet number, and its checksum
ChecksumOtherNumber(n) ==
  /\ Len(returned) = 1
  /\ args[1] # n
  /\ args' = <<n, args[2]>>
  /\ returned' = Append(returned, calculateChecksum(args'[1], args'[2]))
  /\ UNCHANGED restVars

ChecksumNext ==
  \/ Checksum
  \/ \E p \in Positions, v \in Bytes7 : ChecksumOtherByte(p, v)
  \/ \E n \in Bytes7 : ChecksumOtherNumber(n)

ChecksumSpec == ChecksumInit /\ [][ChecksumNext]_vars

\* ---- sdsProtocol: createDumpHeader ----
SDS_DUMP_HEADER == 1
NoLoop == 127
BitDepth == 16
NanosPerSecond == 1000000000

\* a split into 8-bit bytes
Groups7_bytes(value) == << value % 256, (value \div 256) % 256, (value \div 65536) % 256 >>

\* the three 7-bit groups of a value, bits 0-6 first
Groups7(value) == << value % 128, (value \div 128) % 128, (value \div 16384) % 128 >>

\* a period that drops the fraction instead of rounding
sampleRateToPeriod_truncated(sampleRate) ==
  Groups7(NanosPerSecond \div sampleRate)

\* Math.round of a positive quotient: halves go up
sampleRateToPeriod(sampleRate) ==
  Groups7((2 * NanosPerSecond + sampleRate) \div (2 * sampleRate))

lengthToSdsFormat(byteLength) == Groups7(byteLength \div 2)

createDumpHeader(sampleNum, bitDepth, sampleRate, sampleLength) ==
  LET sampleNumBytes == << sampleNum % 128, (sampleNum \div 128) % 128 >>
      periodBytes == sampleRateToPeriod(sampleRate)
      lengthBytes == lengthToSdsFormat(sampleLength)
      loopStartBytes == lengthBytes
      loopEndBytes == lengthBytes
  IN <<SDS_DUMP_HEADER>> \o sampleNumBytes \o <<bitDepth>> \o periodBytes
       \o lengthBytes \o loopStartBytes \o loopEndBytes \o <<NoLoop>>

\* sample rates and PCM lengths whose period and word count fit 21 bits; the
\* upload passes 44100 Hz and at most 88200 bytes
SampleRates == {477, 8000, 22050, 44100, 48000, 96000}
ByteLengths == (0..120) \cup {8820, 8821, 88200, 4194303}

HeaderInit ==
  /\ Resting
  /\ \E sampleNum \in {MinSlot, MaxSlot}, sampleRate \in SampleRates,
        sampleLength \in ByteLengths :
       args = <<sampleNum, BitDepth, sampleRate, sampleLength>>
  /\ returned = <<>>

DumpHeader ==
  /\ returned = <<>>
  /\ returned' = createDumpHeader(args[1], args[2], args[3], args[4])
  /\ UNCHANGED <<restVars, args>>

HeaderSpec == HeaderInit /\ [][DumpHeader]_vars

\* ---- sdsProtocol: createDataPacket ----
PacketSamples == 40

\* pcmData is indexed from 0 in the code and from 1 here
createDataPacket(packetNum, pcmData, offset) ==
  LET sampleOffset(i) == offset + (i * 2)
      inRange(i) == sampleOffset(i) + 1 < Len(pcmData)
      word(i) == (pcmData[sampleOffset(i) + 2] * 256) + pcmData[sampleOffset(i) + 1]
      signedSample(i) == IF word(i) > 32767 THEN word(i) - 65536 ELSE word(i)
      dataBytes == [k \in 1..PayloadBytes |->
                      LET i == (k - 1) \div 3
                      IN IF inRange(i)
                         THEN pack16BitSample(signedSample(i))[((k - 1) % 3) + 1]
                         ELSE 0]
  IN <<SDS_DATA_PACKET, packetNum % 128>> \o dataBytes
       \o <<calculateChecksum(packetNum, dataBytes)>>

\* PCM buffers: one 16-bit sample value, little-endian, over the whole length
MaxPcm == 240
PcmSamples == {0, 1, -1, 255, 32767, -32768}
PcmOf(s, len) ==
  [k \in 1..len |-> IF k % 2 = 1 THEN ((s + 65536) % 65536) % 256
                    ELSE ((s + 65536) % 65536) \div 256]

\* the calls of transferSampleViaSds: offset goes up by 80 while below the length
PacketInit ==
  /\ Resting
  /\ \E packetNum \in {0, 127}, s \in PcmSamples, len \in 1..MaxPcm :
       \E offset \in {o \in 0..(len - 1) : o % PacketBytes = 0} :
         args = <<packetNum, PcmOf(s, len), offset>>
  /\ returned = <<>>

DataPacket ==
  /\ returned = <<>>
  /\ returned' = createDataPacket(args[1], args[2], args[3])
  /\ UNCHANGED <<restVars, args>>

PacketSpec == PacketInit /\ [][DataPacket]_vars

\* ---- audioProcessor.processAudioFile and the recorder's processRecording ----
\* A decoded sample is a number in thousandths, or NaN; the buffers are
\* followed by their lengths, and one sample through the conversion.
TARGET_SAMPLE_RATE == 44100
MAX_SAMPLES == 44100
MaxMilli == 2000

NaN == [nan |-> TRUE, milli |-> 0]
Float(m) == [nan |-> FALSE, milli |-> m]

\* Math.round(inputData.length / (inputSampleRate / outputSampleRate))
resample(length, inputSampleRate, outputSampleRate) ==
  IF 2 * ((length * outputSampleRate) % inputSampleRate) >= inputSampleRate
  THEN ((length * outputSampleRate) \div inputSampleRate) + 1
  ELSE (length * outputSampleRate) \div inputSampleRate

\* a conversion that scales without clamping first
intSample_unclamped(x) ==
  IF x.nan THEN NaN
  ELSE Float(((2 * x.milli * 32767) + 1000) \div 2000)

\* Math.round(Math.max(-1, Math.min(1, x)) * 32767), in units
intSample(x) ==
  IF x.nan THEN NaN
  ELSE LET clamped == IF x.milli > 1000 THEN 1000
                      ELSE IF x.milli < -1000 THEN -1000 ELSE x.milli
       IN Float(((2 * clamped * 32767) + 1000) \div 2000)

\* DataView.setInt16: NaN is written as 0, a number modulo 2^16
setInt16(v) ==
  IF v.nan THEN 0 ELSE ((v.milli + 32768) % 65536) - 32768

\* a file conversion that keeps every resampled sample
processAudioFile_untrimmed(length, sampleRate, x) ==
  LET finalLength == IF sampleRate # TARGET_SAMPLE_RATE
                     THEN resample(length, sampleRate, TARGET_SAMPLE_RATE)
                     ELSE length
  IN <<finalLength * 2, TARGET_SAMPLE_RATE, setInt16(intSample(x))>>

\* byte length of pcmData, sampleRate, and the 16-bit value written for x
processAudioFile(length, sampleRate, x) ==
  LET resampled == IF sampleRate # TARGET_SAMPLE_RATE
                   THEN resample(length, sampleRate, TARGET_SAMPLE_RATE)
                   ELSE length
      finalLength == IF resampled > MAX_SAMPLES THEN MAX_SAMPLES ELSE resampled
  IN <<finalLength * 2, TARGET_SAMPLE_RATE, setInt16(intSample(x))>>

processRecording(length, sampleRate, x) ==
  LET resampled == IF sampleRate # TARGET_SAMPLE_RATE
                   THEN resample(length, sampleRate, TARGET_SAMPLE_RATE)
                   ELSE length
      finalLength == IF resampled > MAX_SAMPLES THEN MAX_SAMPLES
                     ELSE IF resampled < MAX_SAMPLES THEN MAX_SAMPLES
                     ELSE resampled
  IN <<finalLength * 2, TARGET_SAMPLE_RATE, setInt16(intSample(x))>>

\* decoded buffers: lengths around the rates and the one-second limit with a
\* silent sample, and every sample value of -2..2 in a one-sample buffer
NormalizeInit ==
  /\ Resting
  /\ \E path \in {"file", "recording"} :
       \/ \E length \in {0, 1, 2, 3, 100, 7999, 8000, 8001, 22050, 44099, 44100,
                         44101, 48000, 48001, 48695},
             sampleRate \in {8000, 22050, 44100, 48000, 96000} :
            args = <<path, length, sampleRate, Float(0)>>
       \/ \E m \in (-MaxMilli)..MaxMilli :
            args = <<path, 1, TARGET_SAMPLE_RATE, Float(m)>>
       \/ args = <<path, 1, TARGET_SAMPLE_RATE, NaN>>
  /\ returned = <<>>

ProcessFile ==
  /\ returned = <<>>
  /\ args[1] = "file"
  /\ returned' = processAudioFile(args[2], args[3], args[4])
  /\ UNCHANGED <<restVars, args>>

ProcessRecording ==
  /\ returned = <<>>
  /\ args[1] = "recording"
  /\ returned' = processRecording(args[2], args[3], args[4])
  /\ UNCHANGED <<restVars, args>>

NormalizeSpec == NormalizeInit /\ [][ProcessFile \/ ProcessRecording]_vars

\* ---- versioning: parseFirmwareVersion and isNewerVersion ----
\* A string is the sequence of its characters; null is NullVersion.
NullVersion == <<"null">>
DigitChars == <<"0", "1", "2", "3", "4", "5", "6", "7", "8", "9">>
DevMark == <<"-", "d", "e", "v", ".">>

\* the text of a number below 100, as the firmware and the release list write it
FormatNumber(n) ==
  IF n < 10 THEN <<DigitChars[n + 1]>>
  ELSE <<DigitChars[(n \div 10) + 1], DigitChars[(n % 10) + 1]>>

\* major.minor.patch, with -dev.commits unless commits is -1
FormatVersion(major, minor, patch, commits) ==
  FormatNumber(major) \o <<".">> \o FormatNumber(minor) \o <<".">> \o FormatNumber(patch)
    \o (IF commits < 0 THEN <<>> ELSE DevMark \o FormatNumber(commits))

IsDigit(c) == \E d \in DOMAIN DigitChars : DigitChars[d] = c

\* \d+ from position i: the last position of the run of digits (i - 1: none)
DigitsEnd(t, i) ==
  IF i > Len(t) THEN i - 1
  ELSE CHOOSE j \in (i - 1)..Len(t) :
         /\ \A k \in i..j : IsDigit(t[k])
         /\ j = Len(t) \/ ~IsDigit(t[j + 1])

\* parseInt(t[i..j], 10)
ParseInt(t, i, j) ==
  LET value[k \in (i - 1)..j] ==
        IF k = i - 1 THEN 0
        ELSE (10 * value[k - 1]) + ((CHOOSE d \in DOMAIN DigitChars : DigitChars[d] = t[k]) - 1)
  IN value[j]

\* the regular expression tried at position i: <<major, minor, patch, commits>>
\* (commits -1: not captured), or <<>> when it does not match there.
\* devRequired: the -dev.N group is not optional; anchored: the pattern ends in $
MatchAt(t, i, devRequired, anchored) ==
  LET e1 == DigitsEnd(t, i)
      e2 == DigitsEnd(t, e1 + 2)
      e3 == DigitsEnd(t, e2 + 2)
      e4 == DigitsEnd(t, e3 + 6)
      dotted == /\ e1 >= i
                /\ e1 < Len(t) /\ t[e1 + 1] = "."
                /\ e2 >= e1 + 2
                /\ e2 < Len(t) /\ t[e2 + 1] = "."
                /\ e3 >= e2 + 2
      dev == /\ e3 + 5 <= Len(t)
             /\ SubSeq(t, e3 + 1, e3 + 5) = DevMark
             /\ e4 >= e3 + 6
      numbers == <<ParseInt(t, i, e1), ParseInt(t, e1 + 2, e2), ParseInt(t, e2 + 2, e3)>>
  IN IF ~dotted THEN <<>>
     ELSE IF dev /\ (anchored => e4 = Len(t))
          THEN numbers \o <<ParseInt(t, e3 + 6, e4)>>
     ELSE IF ~devRequired /\ (anchored => e3 = Len(t))
          THEN numbers \o <<-1>>
     ELSE <<>>

\* String.match: the match at the leftmost position that has one
MatchFirst(t, devRequired, anchored) ==
  LET found == {i \in 1..Len(t) : MatchAt(t, i, devRequired, anchored) # <<>>}
  IN IF found = {} THEN <<>>
     ELSE MatchAt(t, CHOOSE i \in found : \A k \in found : i <= k, devRequired, anchored)

\* the parser of the earlier revision: /(\d+)\.(\d+)\.(\d+)-dev\.(\d+)/
parseFirmwareVersion_devRequired(versionString) ==
  MatchFirst(versionString, TRUE, FALSE)

\* versionString.replace(/^v/, '') matched by /(\d+)\.(\d+)\.(\d+)(?:-dev\.(\d+))?$/
parseFirmwareVersion(versionString) ==
  LET cleanVersion == IF versionString # <<>> /\ Head(versionString) = "v"
                      THEN Tail(versionString) ELSE versionString
  IN MatchFirst(cleanVersion, FALSE, TRUE)

\* a comparison that parses before it looks at currentVersion
isNewerVersion_parsesFirst(currentVersion, newVersion) ==
  IF parseFirmwareVersion(newVersion) = <<>> THEN <<FALSE, TRUE>>
  ELSE <<TRUE, FALSE>>

\* <<the value returned, console.warn was called>>
isNewerVersion(currentVersion, newVersion) ==
  IF currentVersion = NullVersion \/ currentVersion = <<>> THEN <<TRUE, FALSE>>
  ELSE LET parsedCurrent == parseFirmwareVersion(currentVersion)
           parsedNew == parseFirmwareVersion(newVersion)
       IN IF parsedCurrent = <<>> \/ parsedNew = <<>> THEN <<FALSE, TRUE>>
          ELSE IF parsedNew[1] > parsedCurrent[1] THEN <<TRUE, FALSE>>
          ELSE IF parsedNew[1] < parsedCurrent[1] THEN <<FALSE, FALSE>>
          ELSE IF parsedNew[2] > parsedCurrent[2] THEN <<TRUE, FALSE>>
          ELSE IF parsedNew[2] < parsedCurrent[2] THEN <<FALSE, FALSE>>
          ELSE IF parsedNew[3] > parsedCurrent[3] THEN <<TRUE, FALSE>>
          ELSE IF parsedNew[3] < parsedCurrent[3] THEN <<FALSE, FALSE>>
          ELSE IF parsedNew[4] >= 0 /\ parsedCurrent[4] < 0 THEN <<TRUE, FALSE>>
          ELSE IF parsedNew[4] < 0 /\ parsedCurrent[4] >= 0 THEN <<FALSE, FALSE>>
          ELSE IF parsedNew[4] >= 0 /\ parsedCurrent[4] >= 0
                  /\ parsedNew[4] > parsedCurrent[4] THEN <<TRUE, FALSE>>
          ELSE <<FALSE, FALSE>>

\* version texts: releases and development builds, and strings that are none
Releases ==
  {<<major, minor, patch, commits>> :
     major \in {0, 1}, minor \in {9, 10}, patch \in {0, 2}, commits \in {-1, 2, 10}}
VersionStrings ==
  {FormatVersion(r[1], r[2], r[3], r[4]) : r \in Releases}
    \cup { <<>>, <<"a", "b", "c">>, <<"1", ".", "0">>,
           <<"1", ".", "0", ".", "0", "-", "d", "e", "v">>,
           <<"1", ".", "0", ".", "0", "-", "r", "c", "1">>,
           <<"v", "0", ".", "9", ".", "0">>,
           <<"1", ".", "2", ".", "3", ".", "4">>,
           <<"x", "1", ".", "0", ".", "0">> }

VersionInit ==
  /\ Resting
  /\ \E currentVersion \in VersionStrings \cup {NullVersion}, newVersion \in VersionStrings :
       args = <<currentVersion, newVersion>>
  /\ returned = <<>>

CompareVersions ==
  /\ returned = <<>>
  /\ returned' = isNewerVersion(args[1], args[2])
  /\ UNCHANGED <<restVars, args>>

VersionSpec == VersionInit /\ [][CompareVersions]_vars

\* ---- sdsProtocol: the midimessage listener, and a device that answers ----
SYSEX_START == 240
SYSEX_END == 247
SDS_ACK == 127
SDS_NAK == 126
SDS_CANCEL == 125
SDS_WAIT == 124
MaxFrames == 6

\* a test that forgets the channel
isSdsMessage_anyChannel(message) ==
  /\ message[1] = SYSEX_START
  /\ message[Len(message)] = SYSEX_END
  /\ Len(message) >= 6
  /\ message[2] = MIDI_NON_REALTIME_ID

\* message is indexed from 0 in the code and from 1 here
isSdsMessage(message) ==
  /\ message[1] = SYSEX_START
  /\ message[Len(message)] = SYSEX_END
  /\ Len(message) >= 6
  /\ message[2] = MIDI_NON_REALTIME_ID
  /\ message[3] = SYSEX_CHANNEL

ReplyTag(type) ==
  CASE type = "ack" -> SDS_ACK
    [] type = "nak" -> SDS_NAK
    [] type = "wait" -> SDS_WAIT
    [] type = "cancel" -> SDS_CANCEL

\* handleMidiMessage on the bytes of an event: a message that is not an SDS
\* message, or whose tag is no reply, changes nothing
midimessage(message) ==
  IF isSdsMessage(message) /\ \E type \in Replies : message[4] = ReplyTag(type)
  THEN handleMidiMessage(CHOOSE type \in Replies : message[4] = ReplyTag(type))
  ELSE /\ thread = 0
       /\ messageHandler
       /\ UNCHANGED <<storeVars, nextId, runs, thread, sdsVars, midiVars>>
       /\ noSend /\ noReport /\ noThrow

\* the device answers frame f, which it has received and is not done with,
\* with a reply that echoes the packet number or carries the tag alone
DeviceReply(f, type, echo) ==
  /\ f \in (device.answered + 1)..device.frames
  /\ type = "nak" => device.frames < MaxFrames
  /\ LET message == <<SYSEX_START, MIDI_NON_REALTIME_ID, SYSEX_CHANNEL, ReplyTag(type)>>
                      \o (IF echo THEN <<0>> ELSE <<>>) \o <<SYSEX_END>>
     IN /\ midimessage(message)
        /\ device' = [device EXCEPT !.answered = IF type = "wait" THEN f - 1 ELSE f,
                                    !.strays = IF pendingResponse # 0 /\ pendingResponse' = 0
                                                  /\ f # device.frames /\ @ < 2
                                               THEN @ + 1 ELSE @,
                                    !.replyTo = f,
                                    !.delivered = message,
                                    !.outstanding = pendingResponse # 0,
                                    !.resolved = pendingResponse # 0 /\ pendingResponse' = 0]
  /\ UNCHANGED <<hist, sample, packed, args, returned>>

\* the device receives the frame sent by the step, if one was sent
hears ==
  /\ device' = [device EXCEPT
                  !.frames = IF wire' # NoFrame THEN @ + 1 ELSE @,
                  !.base = IF wire'.kind = "header" /\ runs[SessionRun].pc = "processing"
                           THEN device.frames ELSE @,
                  !.replyTo = 0, !.delivered = <<>>,
                  !.outstanding = FALSE, !.resolved = FALSE]
  /\ UNCHANGED <<hist, sample, packed, args, returned>>

\* startQueue with two pending entries, at the first one's audio processing;
\* each sample is one packet long
ReplyInit ==
  /\ queue = <<[NewItem(1, MinSlot) EXCEPT !.status = "processing"], NewItem(2, MaxSlot)>>
  /\ isUploading = TRUE
  /\ currentUploadId = 1
  /\ nextId = 2
  /\ thrown = NoError
  /\ runs = [r \in Runs |->
               IF r = SessionRun
               THEN [IdleRun EXCEPT !.pc = "processing",
                                    !.items = <<NewItem(1, MinSlot), NewItem(2, MaxSlot)>>,
                                    !.idx = 1]
               ELSE IdleRun]
  /\ thread = 0
  /\ pendingResponse = 0
  /\ timers = [r \in Runs |-> 0]
  /\ timerMs = [r \in Runs |-> 0]
  /\ messageHandler = TRUE
  /\ isConnected = TRUE
  /\ selectedOutput = TRUE
  /\ selectedInput = TRUE
  /\ wire = NoFrame
  /\ reported = NoReport
  /\ hist = NoHistory
  /\ sample = 0
  /\ packed = <<>>
  /\ args = <<>>
  /\ returned = <<>>
  /\ device = NoDevice

ReplyNext ==
  \/ \E ok \in BOOLEAN : ProcessDone(SessionRun, ok, PacketBytes) /\ hears
  \/ \E f \in 1..MaxFrames, type \in Replies, echo \in BOOLEAN : DeviceReply(f, type, echo)
  \/ TimerFire(SessionRun) /\ hears
  \/ HeaderReply(SessionRun) /\ hears
  \/ HeaderRetryReply(SessionRun) /\ hears
  \/ SendPacket(SessionRun) /\ hears
  \/ PacketReply(SessionRun) /\ hears
  \/ FinalReply(SessionRun) /\ hears
  \/ LoopStep(SessionRun) /\ hears

ReplySpec == ReplyInit /\ [][ReplyNext]_vars

\* ---- sdsProtocol: the listener hears everything the input delivers ----
\* Messages that are no reply of the protocol: a note-on, replies under
\* another channel or another universal id, a reply cut before its end, a
\* dump header and a dump request sent to the app.
OtherMessages ==
  { <<144, 60, 100>>,
    <<SYSEX_START, MIDI_NON_REALTIME_ID, 0, SDS_ACK, 0, SYSEX_END>>,
    <<SYSEX_START, 127, SYSEX_CHANNEL, SDS_NAK, 0, SYSEX_END>>,
    <<SYSEX_START, MIDI_NON_REALTIME_ID, SYSEX_CHANNEL, SDS_ACK, 0, 0>>,
    <<SYSEX_START, MIDI_NON_REALTIME_ID, SYSEX_CHANNEL, SDS_DUMP_HEADER, 0, SYSEX_END>>,
    <<SYSEX_START, MIDI_NON_REALTIME_ID, SYSEX_CHANNEL, 3, 0, SYSEX_END>> }

\* the input delivers a message the device did not send as a reply
Inbound(message) ==
  /\ midimessage(message)
  /\ device' = [device EXCEPT !.replyTo = 0,
                              !.delivered = message,
                              !.outstanding = pendingResponse # 0,
                              !.resolved = pendingResponse # 0 /\ pendingResponse' = 0]
  /\ UNCHANGED <<hist, sample, packed, args, returned>>

ListenSpec ==
  ReplyInit /\ [][ReplyNext \/ \E message \in OtherMessages : Inbound(message)]_vars

\* ---- sdsProtocol: the frames of a transfer as they go to the output ----
\* sendSdsMessage puts its data between the SysEx delimiters and the prefix
SdsMessage(data) ==
  <<SYSEX_START, MIDI_NON_REALTIME_ID, SYSEX_CHANNEL>> \o data \o <<SYSEX_END>>

\* the sends of transferSampleViaSds: the header of a slot and a PCM length,
\* or the data packet at an offset of a buffer with packetNum as the loop
\* counts it (1102 is the last packet of 88200 bytes)
FrameInit ==
  /\ Resting
  /\ \/ \E sampleNumber \in MinSlot..MaxSlot,
           length \in {n \in ByteLengths : n <= 2 * MAX_SAMPLES} :
          args = <<"header", sampleNumber, length>>
     \/ \E packetNum \in {0, 1, 127, 128, 1102}, s \in PcmSamples, len \in 1..MaxPcm :
          \E offset \in {o \in 0..(len - 1) : o % PacketBytes = 0} :
            args = <<"data", packetNum, PcmOf(s, len), offset>>
  /\ returned = <<>>

HeaderFrame ==
  /\ returned = <<>>
  /\ args[1] = "header"
  /\ returned' = SdsMessage(createDumpHeader(args[2], BitDepth, TARGET_SAMPLE_RATE, args[3]))
  /\ UNCHANGED <<restVars, args>>

DataFrame ==
  /\ returned = <<>>
  /\ args[1] = "data"
  /\ returned' = SdsMessage(createDataPacket(args[2] % 128, args[3], args[4]))
  /\ UNCHANGED <<restVars, args>>

FrameSpec == FrameInit /\ [][HeaderFrame \/ DataFrame]_vars

\* ---- one session and a device that may answer NAK without end ----
\* The session of SessionSpec with nothing counted from outside, so that the
\* device is free to answer NAK any number of times.
ResendContinues ==
  \/ \E ok \in BOOLEAN, len \in SessionLengths :
       ProcessDone(SessionRun, ok, len) /\ UNCHANGED obsVars
  \/ HeaderReply(SessionRun) /\ UNCHANGED obsVars
  \/ HeaderRetryReply(SessionRun) /\ UNCHANGED obsVars
  \/ SendPacket(SessionRun) /\ UNCHANGED obsVars
  \/ PacketReply(SessionRun) /\ UNCHANGED obsVars
  \/ FinalReply(SessionRun) /\ UNCHANGED obsVars
  \/ LoopStep(SessionRun) /\ UNCHANGED obsVars

ResendNext ==
  \/ ResendContinues
  \/ \E type \in Replies : handleMidiMessage(type) /\ UNCHANGED obsVars
  \/ TimerFire(SessionRun) /\ UNCHANGED obsVars
  \/ \E input \in BOOLEAN : ConnectDevice(input) /\ UNCHANGED obsVars
  \/ DisconnectDevice /\ UNCHANGED obsVars

\* queued continuations run and an armed timer fires unless a reply clears
\* it first
ResendSpec ==
  /\ SessionInit
  /\ [][ResendNext]_vars
  /\ WF_vars(ResendContinues)
  /\ WF_vars(TimerFire(SessionRun) /\ UNCHANGED obsVars)

TypeOK ==
  /\ isUploading \in BOOLEAN
  /\ currentUploadId \in 0..MaxItems
  /\ thread \in 0..MaxRuns
  /\ pendingResponse \in 0..MaxRuns
  /\ \A i \in DOMAIN queue : queue[i].status \in {"pending", "processing", "uploading", "completed", "error"}

\* ======================= the claims =======================

Entries(q) == {q[i] : i \in DOMAIN q}

Quiescent == thread = 0 /\ \A r \in Runs : runs[r].pc = "idle"

\* C1: at most one transfer session (transferSampleViaSds started and not yet
\* completed or failed) is in progress at any time, whatever the interleaving
\* of addToQueue, startQueue, quickUpload and cancelQueue.
C1_OneSessionAtATime ==
  Cardinality({r \in Runs : runs[r].pc \in InSession}) <= 1

\* C2: within one session at most one wait is outstanding: the session sends
\* no frame and creates no wait while a wait it created earlier is unresolved.
C2_OneWaitPerSession ==
  [][\A r \in Runs :
       /\ timers'[r] <= 1
       /\ (wire'.run = r \/ timers'[r] > timers[r]) => timers[r] = 0]_vars

C2_Witness ==
  \E r \in Runs : runs[r].pc = "fin" /\ timers[r] = 1 /\ pendingResponse = r

\* C3: in every queue state at most one entry per target slot is pending,
\* processing or uploading.
C3_OneActiveEntryPerSlot ==
  \A i, j \in DOMAIN queue :
    (i # j /\ queue[i].targetSlot = queue[j].targetSlot)
      => ~(Active(queue[i].status) /\ Active(queue[j].status))

\* C4: an addToQueue call with a target slot below 30 or above 61, a file that
\* is not audio, or a slot that has a non-terminal entry raises an error and
\* leaves queue, isUploading and currentUploadId as they were.
C4_Rejectable(file, targetSlot) ==
  \/ ~isAudioFile(file)
  \/ targetSlot < MinSlot
  \/ targetSlot > MaxSlot
  \/ \E e \in Entries(queue) : e.targetSlot = targetSlot /\ ~Terminal(e.status)

C4_RejectedAddLeavesState ==
  [][\A file \in Files, targetSlot \in Slots :
       (AddToQueue(file, targetSlot) /\ C4_Rejectable(file, targetSlot))
         => (thrown' # NoError /\ UNCHANGED storeVars)]_vars

C4_Witness ==
  thrown = SlotBusy /\ isUploading /\ currentUploadId # 0 /\ Len(queue) > 0

\* C5: once the status of an entry is completed or error, it never changes.
C5_TerminalIsFinal ==
  [][\A e \in Entries(queue) : \A f \in Entries(queue') :
       (Terminal(e.status) /\ f.id = e.id) => f.status = e.status]_vars

\* C6: cancelQueue marks every non-terminal entry as error with the
\* cancellation reason, and the run loop that was active starts no transfer
\* for a further entry once the item current at the cancel is done.
C6_CancelStopsLoop ==
  [][/\ CancelQueue =>
          \A i \in DOMAIN queue :
            Active(queue[i].status) =>
              (queue'[i].status = "error" /\ queue'[i].error = CancelledByUser)
     /\ \A r \in Runs :
          (runs[r].cancelledAt > 0 /\ runs[r].idx > runs[r].cancelledAt)
            => ~(wire'.run = r /\ wire'.kind = "header")]_vars

\* C7: one startQueue call starts its entries in the order in which they were
\* enqueued (ids grow with enqueueing), and starts an entry only when the
\* upload of the entry before it has ended in completed or error.
C7_InOrderOneAtATime ==
  [][\A r \in Runs :
       (runs[r].pc = "loop" /\ runs'[r].pc = "processing") =>
         LET items == runs[r].items
             idx == runs[r].idx
         IN /\ \A k \in DOMAIN items : (k < idx <=> items[k].id < items[idx].id)
            /\ idx > 1 =>
                 \A e \in Entries(queue) :
                   e.id = items[idx - 1].id => Terminal(e.status)]_vars

C7_Witness ==
  \E r \in Runs :
    /\ runs[r].pc = "processing"
    /\ runs[r].idx = 2
    /\ \E e \in Entries(queue) : e.id = runs[r].items[1].id /\ e.status = "completed"

\* C8: every entry added with quickUpload reaches completed or error, also
\* when quickUpload is called while a run is in progress.  In finite form:
\* when no startQueue invocation is left that could still act, no entry is
\* short of completed or error.
C8_QuickUploadFinishes ==
  Quiescent => \A e \in Entries(queue) : Terminal(e.status)

\* C9: when the upload of an entry fails, the entry becomes error with a
\* reason, and the loop goes on with the remaining entries of the run: it
\* moves to the next one and ends only after the last.
C9_UploadEnded(r) ==
  runs[r].pc # "idle" /\ runs'[r].idx = runs[r].idx + 1

C9_UploadSucceeded(r) ==
  runs[r].pc = "send" /\ runs[r].offset >= runs[r].len

C9_FailureContinues ==
  [][\A r \in Runs :
       /\ (C9_UploadEnded(r) /\ ~C9_UploadSucceeded(r)) =>
            /\ \A e \in Entries(queue') :
                 e.id = item(r).id => (e.status = "error" /\ e.error # NoError)
            /\ runs'[r].pc = "loop"
            /\ runs'[r].items = runs[r].items
       /\ (runs[r].pc # "idle" /\ runs'[r].pc = "idle") =>
            runs[r].idx > Len(runs[r].items)]_vars

C9_Witness ==
  \E r \in Runs :
    /\ runs[r].pc \in InSession
    /\ runs[r].idx = 2
    /\ \E e \in Entries(queue) :
         /\ e.id = runs[r].items[1].id
         /\ e.status = "error"
         /\ e.error \in {ProcessingFailed, HeaderRejected, DeviceCancelled, NoOutput}

\* C10: completed and error entries stay in the queue in every step except
\* clearCompleted and removeFromQueue; clearCompleted removes exactly the
\* completed and error entries and keeps the others, in their order.
C10_KeptIndices(q) == {i \in DOMAIN q : ~Terminal(q[i].status)}

C10_Rank(q, i) == Cardinality({k \in C10_KeptIndices(q) : k <= i})

C10_FinishedStayUntilCleared ==
  [][/\ ~(ClearCompleted \/ \E id \in 1..MaxItems : RemoveFromQueue(id)) =>
          /\ Len(queue') >= Len(queue)
          /\ \A i \in DOMAIN queue :
               Terminal(queue[i].status) => queue'[i].id = queue[i].id
     /\ ClearCompleted =>
          /\ Len(queue') = Cardinality(C10_KeptIndices(queue))
          /\ \A i \in C10_KeptIndices(queue) :
               queue'[C10_Rank(queue, i)] = queue[i]]_vars

C10_Witness ==
  /\ Len(queue) = 2
  /\ queue[1].status = "completed"
  /\ queue[2].status = "error"
  /\ queue[2].error = CancelledByUser

\* ======================= one session =======================
\* The claims below are about a single session and are checked on
\* SessionSpec, where hist records what the session sent and was told.

DataSent == wire.run = SessionRun /\ wire.kind = "data"

\* the reply that settled the data frame sent last: the final reply if the
\* first one was WAIT
Settled == IF hist.lastReply = "wait" THEN hist.final ELSE hist.lastReply

Awaited ==
  /\ pendingResponse = SessionRun
  /\ timers[SessionRun] = 1
  /\ runs[SessionRun].pc = "pkt"

\* C11: if the reply to the dump header is Ack, every data packet sent is
\* followed by an awaited reply until the first wait that times out; if the
\* header wait times out with no reply, no wait is created for any data packet
\* of that session.
C11_HandshakingUntilTimeout ==
  [][DataSent' =>
       /\ (hist.first = "ack" /\ ~hist.timedOut) => Awaited'
       /\ hist.first = "timeout" =>
            (timers'[SessionRun] = 0 /\ pendingResponse' # SessionRun)]_vars


\* C12: when the first header reply is Nak the header is resent exactly once
\* (a second header is sent only then, and it is sent unless the output is
\* gone by then); if the reply to the resent header is Nak, Wait or Cancel the
\* session fails with 'Header rejected twice' and never sends a data packet.
C12_HeaderRetry ==
  /\ hist.headers <= 2
  /\ hist.headers = 2 => hist.first = "nak"
  /\ (hist.first = "nak" /\ runs[SessionRun].pc # "hdr1r") =>
       \/ hist.headers = 2
       \/ hist.headers = 1 /\ hist.outcome = NoOutput /\ hist.data = 0
  /\ hist.second \in {"nak", "wait", "cancel"} =>
       /\ hist.data = 0 /\ ~DataSent
       /\ runs[SessionRun].pc # "hdr2r" =>
            /\ hist.outcome = HeaderRejected
            /\ sessionEntry(queue).status = "error"
            /\ sessionEntry(queue).error = HeaderRejected

C12_Witness ==
  /\ hist.first = "nak" /\ hist.second = "wait"
  /\ hist.headers = 2 /\ hist.outcome = HeaderRejected

\* C13: when the first header reply is Nak and the resent header is answered
\* with Ack, the session streams in handshaking mode: the reply to each data
\* packet is awaited.
C13_RetryAckHandshakes ==
  [][(DataSent' /\ hist.first = "nak" /\ hist.second = "ack" /\ ~hist.timedOut)
       => Awaited']_vars

\* C14: in handshaking mode an Ack advances the byte offset by 80 and the
\* packet number by 1 (modulo 128 on the wire), while after a Nak the next
\* frame sent is the same data packet again: same packet number, same byte
\* offset (so the same bytes of the same buffer), successfulPackets unchanged.
C14_AckAdvancesNakRepeats ==
  [][LET run == runs[SessionRun] IN
       /\ (run.pc \in {"pktr", "finr"} /\ run.resp = "ack") =>
            /\ runs'[SessionRun].offset = run.offset + PacketBytes
            /\ runs'[SessionRun].packetNum = run.packetNum + 1
            /\ runs'[SessionRun].successfulPackets = run.successfulPackets + 1
       /\ (DataSent' /\ Settled = "ack") =>
            /\ wire'.offset = hist.last.offset + PacketBytes
            /\ wire'.packetNum = (hist.last.packetNum + 1) % 128
       /\ (DataSent' /\ Settled = "nak") =>
            /\ wire'.offset = hist.last.offset
            /\ wire'.packetNum = hist.last.packetNum
            /\ run.successfulPackets = hist.last.successfulPackets]_vars

\* packet 128 goes out as number 0, acknowledged packets before it and one
\* resend after a Nak
C14_Witness ==
  /\ DataSent /\ Awaited
  /\ wire.packetNum = 0 /\ wire.offset = 128 * PacketBytes
  /\ hist.naks = 1 /\ hist.data = 130 /\ ~hist.timedOut

\* C15: when a per-packet wait times out in handshaking mode that packet
\* counts as sent (offset and number advance), every remaining packet of the
\* session is sent without any awaited reply in the same stretch of code, and
\* the session ends in Complete with successfulPackets equal to the total
\* packet count (or, the output being gone, fails at its next send).
C15_TimeoutGoesOn ==
  [][LET run == runs[SessionRun] IN
       /\ (run.pc = "pktr" /\ run.resp = "timeout") =>
            /\ runs'[SessionRun].offset = run.offset + PacketBytes
            /\ runs'[SessionRun].packetNum = run.packetNum + 1
            /\ runs'[SessionRun].successfulPackets = run.successfulPackets + 1
            /\ runs'[SessionRun].pc = "send"
       /\ (DataSent' /\ hist.timedOut) =>
            /\ timers'[SessionRun] = 0
            /\ pendingResponse' = 0
       /\ (hist'.timedOut /\ hist'.outcome = "") => thread' = SessionRun
       /\ (hist.timedOut /\ hist.outcome = "" /\ hist'.outcome # "") =>
            \/ /\ hist'.outcome = "complete"
               /\ run.successfulPackets = totalPackets(run.len)
               /\ sessionEntry(queue').status = "completed"
            \/ /\ hist'.outcome = NoOutput
               /\ ~selectedOutput]_vars

\* a buffer of ten packets completed after the wait for packet 5 timed out:
\* six frames awaited, packets 6 to 9 sent without a wait
C15_Witness ==
  /\ hist.timedOut /\ hist.naks = 0
  /\ hist.outcome = "complete" /\ hist.endPackets = 10
  /\ hist.data = 10 /\ hist.awaited = 6 /\ hist.last.packetNum = 9

\* C16: after a Wait reply to a data packet the session awaits one further
\* reply under the long timeout (30000 ms) before sending anything: Ack
\* advances, Nak resends the same packet, Cancel fails the session, and a
\* timeout advances the packet and switches for good to non-handshaking mode.
C16_AfterWait ==
  [][LET run == runs[SessionRun]
         new == runs'[SessionRun]
         same == /\ new.offset = run.offset
                 /\ new.packetNum = run.packetNum
                 /\ new.successfulPackets = run.successfulPackets
         next == /\ new.offset = run.offset + PacketBytes
                 /\ new.packetNum = run.packetNum + 1
                 /\ new.successfulPackets = run.successfulPackets + 1
                 /\ new.pc = "send"
     IN
       /\ (run.pc = "pktr" /\ run.resp = "wait") =>
            /\ new.pc = "fin" /\ same
            /\ pendingResponse' = SessionRun
            /\ timers'[SessionRun] = 1
            /\ timerMs'[SessionRun] = WaitTimeout
            /\ wire' = NoFrame
       /\ run.pc = "fin" =>
            /\ wire'.run # SessionRun
            /\ timerMs[SessionRun] = WaitTimeout
            /\ new.pc \in {"fin", "finr"}
       /\ (run.pc = "finr" /\ run.resp = "ack") => next /\ new.handshaking
       /\ (run.pc = "finr" /\ run.resp = "nak") => same /\ new.pc = "send" /\ new.handshaking
       /\ (run.pc = "finr" /\ run.resp = "cancel") =>
            /\ hist'.outcome = DeviceCancelled
            /\ new.pc = "loop"
       /\ (run.pc = "finr" /\ run.resp = "timeout") => next /\ ~new.handshaking
       /\ (DataSent' /\ hist.final = "nak") =>
            /\ wire'.offset = hist.last.offset
            /\ wire'.packetNum = hist.last.packetNum
       /\ (hist.timedOut /\ new.pc \in InSession) => ~new.handshaking]_vars

\* the long wait after a WAIT to packet 0 has timed out: packet 0 counts as
\* sent and the session is about to send packet 1 in non-handshaking mode
C16_Witness ==
  /\ hist.lastReply = "wait" /\ hist.final = "timeout" /\ hist.timedOut
  /\ runs[SessionRun].pc = "send" /\ ~runs[SessionRun].handshaking
  /\ runs[SessionRun].offset = PacketBytes /\ runs[SessionRun].successfulPackets = 1
  /\ timers[SessionRun] = 0

\* C17: a Cancel reply to a data packet, received directly or as the final
\* reply after Wait, makes the session fail with the device-cancelled error;
\* the session sends no frame afterwards, reports no 'complete' progress, and
\* the queue entry ends in error with that reason.
C17_CancelFails ==
  [][LET run == runs[SessionRun] IN
       /\ (run.pc \in {"pktr", "finr"} /\ run.resp = "cancel") =>
            /\ hist'.outcome = DeviceCancelled
            /\ runs'[SessionRun].pc \notin InSession
            /\ wire' = NoFrame
       /\ hist'.outcome = DeviceCancelled =>
            /\ wire'.run # SessionRun
            /\ runs'[SessionRun].pc \notin InSession
            /\ sessionEntry(queue').status = "error"
            /\ sessionEntry(queue').error = DeviceCancelled
            /\ sessionEntry(queue').progress < FullProgress
            /\ (hist.lastReply = "cancel" \/ hist.final = "cancel")]_vars

\* cancelled by the final reply after a WAIT, the invocation over
C17_Witness ==
  /\ hist.outcome = DeviceCancelled
  /\ hist.lastReply = "wait" /\ hist.final = "cancel"
  /\ runs[SessionRun].pc = "idle"
  /\ sessionEntry(queue).error = DeviceCancelled

\* C18: no session fails because a wait timed out.  A step that handles a
\* timeout (header, resent header, per-packet, after WAIT) goes on to the
\* next send; a session that has ended in error was told so by the device
\* (Cancel to a data packet, or Nak, Wait or Cancel to the resent header) or
\* lost its output or its audio; and every session ends, so one whose waits
\* are resolved by Ack, Nak then Ack, or timeout with the output in place
\* reaches Complete.
C18_FailureCause ==
  \/ hist.outcome \in {"", "complete", NoOutput, ProcessingFailed}
  \/ hist.outcome = HeaderRejected /\ hist.second \in {"nak", "wait", "cancel"}
  \/ hist.outcome = DeviceCancelled /\ "cancel" \in {hist.lastReply, hist.final}

C18_NoTimeoutFails ==
  /\ [][(runs[SessionRun].pc \in Resolved /\ runs[SessionRun].resp = "timeout") =>
          /\ runs'[SessionRun].pc = "send"
          /\ hist'.outcome = ""]_vars
  /\ []C18_FailureCause
  /\ <>(hist.outcome # "")

\* completed after a Nak then Ack on a packet and a timeout of the wait
\* after WAIT on the last packet
C18_Witness ==
  /\ hist.outcome = "complete"
  /\ hist.first = "ack" /\ hist.naks = 1
  /\ hist.lastReply = "wait" /\ hist.final = "timeout"

\* C19: a session that reaches Complete has successfulPackets =
\* ceil(pcmLength / 80) and reports a final progress of 100%; it has sent one
\* data frame per packet and one more per Nak, so when the header and every
\* packet are answered with Ack it has sent exactly one header and exactly
\* ceil(pcmLength / 80) data packets (1103 for 88200 bytes).
C19_CompleteCounts ==
  [][LET run == runs[SessionRun]
         total == totalPackets(run.len)
     IN (hist.outcome = "" /\ hist'.outcome = "complete") =>
          /\ run.successfulPackets = total
          /\ total * PacketBytes >= run.len /\ (total - 1) * PacketBytes < run.len
          /\ sessionEntry(queue').status = "completed"
          /\ sessionEntry(queue').progress = FullProgress
          /\ hist.data = total + hist.naks
          /\ hist.headers = IF hist.first = "nak" THEN 2 ELSE 1
          /\ (hist.first = "ack" /\ hist.awaited = hist.data /\ hist.naks = 0) =>
               (hist.headers = 1 /\ hist.data = total)
          /\ totalPackets(88200) = 1103]_vars

\* the long buffer completed with the header and every packet acknowledged
C19_Witness ==
  /\ hist.outcome = "complete"
  /\ hist.first = "ack" /\ hist.naks = 0 /\ ~hist.timedOut
  /\ hist.lastReply = "ack"
  /\ hist.headers = 1
  /\ hist.data = LongPackets /\ hist.awaited = LongPackets
  /\ hist.endPackets = LongPackets
  /\ sessionEntry(queue).progress = FullProgress

\* ======================= pack16BitSample =======================
\* checked on PackSpec, which applies pack16BitSample to every sample

\* the decoding the format defines: bits 15-9, 8-2 and 1-0 (left-justified in
\* the third byte) put together again, then back to signed
C20_Unpack(bytes) == (bytes[1] * 512 + bytes[2] * 4 + bytes[3] \div 32) - 32768

\* C20: for every signed 16-bit sample s the three bytes of pack16BitSample
\* each lie in 0..127 and decode back to s.
C20_PackRoundTrip ==
  packed # <<>> =>
    /\ Len(packed) = 3
    /\ \A i \in 1..3 : packed[i] \in 0..127
    /\ packed[3] % 32 = 0
    /\ C20_Unpack(packed) = sample

C20_Witness == sample = -1 /\ packed = <<63, 127, 96>>

\* ---- calculateChecksum ----

\* bit k of the xor of a set of indexed bytes: the parity of the bytes that have it
BitOf(x, k) == (x \div (2 ^ k)) % 2

C21_Reference(packetNum, dataBytes) ==
  LET all == <<MIDI_NON_REALTIME_ID, SYSEX_CHANNEL, SDS_DATA_PACKET, packetNum>> \o dataBytes
      ones(k) == Cardinality({i \in DOMAIN all : BitOf(all[i], k) = 1})
      bit[k \in 0..7] == ones(k) % 2
  IN bit[0] + 2 * bit[1] + 4 * bit[2] + 8 * bit[3] + 16 * bit[4] + 32 * bit[5] + 64 * bit[6]

\* C21: the checksum of a data packet is (0x7E xor 0x65 xor 0x02 xor the
\* packet number xor all 120 payload bytes) and 0x7F, so it is a function of
\* packet number and payload; and the packet that differs from another in
\* exactly one 7-bit payload byte, or in the packet number (0..127), has a
\* different checksum.
C21_ChecksumValue ==
  \A i \in DOMAIN returned :
     /\ Len(args[2]) = PayloadBytes
     /\ returned[i] \in Bytes7
     /\ i = Len(returned) => returned[i] = C21_Reference(args[1], args[2])

C21_ChecksumChanges ==
  Len(returned) = 2 => returned[2] # returned[1]

C21_Checksum == C21_ChecksumValue /\ C21_ChecksumChanges

C21_Witness ==
  /\ args[1] = 127
  /\ args[2][PayloadBytes] = 1
  /\ \A i \in 1..(PayloadBytes - 1) : args[2][i] = 85
  /\ returned = <<102, 50>>

\* ---- createDumpHeader ----

\* the value that three 7-bit groups, least-significant first, stand for
C22_Value(bytes) == bytes[1] + 128 * bytes[2] + 16384 * bytes[3]

\* p is the integer nearest to 1e9 / sampleRate, the upper one of two
C22_IsPeriod(p, sampleRate) ==
  /\ 2 * p * sampleRate <= 2 * NanosPerSecond + sampleRate
  /\ 2 * (p + 1) * sampleRate > 2 * NanosPerSecond + sampleRate

\* C22: the dump header carries period = round(1e9 / sampleRate) and
\* lengthWords = floor(byteLength / 2), each as three 7-bit groups,
\* least-significant first, from which the value is got back (22676 for
\* 44100 Hz, 4410 for 8820 bytes); loop start and loop end are both
\* lengthWords, and the loop type byte is 0x7F.
C22_HeaderFields ==
  returned # <<>> =>
    LET period == C22_Value(SubSeq(returned, 5, 7))
        lengthWords == C22_Value(SubSeq(returned, 8, 10))
    IN /\ Len(returned) = 17
       /\ \A i \in 1..17 : returned[i] \in Bytes7
       /\ C22_IsPeriod(period, args[3])
       /\ 2 * lengthWords <= args[4] /\ args[4] < 2 * lengthWords + 2
       /\ args[3] = 44100 => period = 22676
       /\ args[4] = 8820 => lengthWords = 4410
       /\ SubSeq(returned, 11, 13) = SubSeq(returned, 8, 10)
       /\ SubSeq(returned, 14, 16) = SubSeq(returned, 8, 10)
       /\ returned[17] = 127

C22_Witness ==
  /\ args = <<MinSlot, 16, 44100, 8820>>
  /\ returned = <<1, 30, 0, 16, 20, 49, 1, 58, 34, 0, 58, 34, 0, 58, 34, 0, 127>>

\* ---- createDataPacket ----

\* the payload of the packet built, and the three bytes of its sample i (from 0)
C23_Payload == SubSeq(returned, 3, Len(returned) - 1)
C23_SampleBytes(i) == SubSeq(C23_Payload, (3 * i) + 1, (3 * i) + 3)

\* C23: every data packet carries exactly 120 payload bytes for 40 samples,
\* and a sample position beyond the end of the PCM bytes holds the three
\* bytes of pack16BitSample(0), as an in-range sample of value 0 does.
C23_PaddingIsZeroSample ==
  returned # <<>> =>
    /\ Len(C23_Payload) = PayloadBytes
    /\ \A i \in 0..(PacketSamples - 1) :
         args[3] + (2 * i) >= Len(args[2]) => C23_SampleBytes(i) = pack16BitSample(0)

\* what does hold: the length, the in-range samples, and padding of 00 00 00
C23_PacketLayout ==
  returned # <<>> =>
    /\ Len(C23_Payload) = PayloadBytes
    /\ \A i \in 0..(PacketSamples - 1) :
         C23_SampleBytes(i) = IF args[3] + (2 * i) + 1 < Len(args[2])
                              THEN pack16BitSample(
                                     LET w == args[2][args[3] + (2 * i) + 1]
                                              + (256 * args[2][args[3] + (2 * i) + 2])
                                     IN IF w >= 32768 THEN w - 65536 ELSE w)
                              ELSE <<0, 0, 0>>

\* ---- the conversion to 16-bit PCM ----

\* the sample given and the value written for it
C24_Input == args[4]
C24_Written == returned[3]

\* C24 as stated: 1.5 is written as 32767 and -1.5 as -32768, and no input
\* value wraps around the signed 16-bit range.
C24_ClampsToFullRange ==
  returned # <<>> /\ ~C24_Input.nan =>
    /\ C24_Input.milli = 1500 => C24_Written = 32767
    /\ C24_Input.milli = -1500 => C24_Written = -32768
    /\ C24_Input.milli >= 0 => C24_Written >= 0
    /\ C24_Input.milli <= 0 => C24_Written <= 0

\* C24 amended: the sample is clamped to -1..1 before it is scaled by 32767:
\* 1.5 is written as 32767 and -1.5 as -32767; every number is written as
\* the integer nearest to its clamped value times 32767, which lies in
\* -32767..32767 and has the sign of the input, and NaN is written as 0.
C24_ClampsBeforeScaling ==
  returned # <<>> =>
    IF C24_Input.nan THEN C24_Written = 0
    ELSE LET clamped == IF C24_Input.milli > 1000 THEN 1000
                        ELSE IF C24_Input.milli < -1000 THEN -1000
                        ELSE C24_Input.milli
         IN /\ C24_Input.milli = 1500 => C24_Written = 32767
            /\ C24_Input.milli = -1500 => C24_Written = -32767
            /\ C24_Written \in (-32767)..32767
            /\ (1000 * C24_Written) - (32767 * clamped) \in (-499)..500
            /\ C24_Input.milli >= 0 => C24_Written >= 0
            /\ C24_Input.milli <= 0 => C24_Written <= 0

C24_Witness ==
  /\ args[1] = "recording"
  /\ C24_Input = Float(-1500)
  /\ returned = <<88200, 44100, -32767>>

\* ---- the length of the normalized PCM ----

\* C28: both normalizations, of an uploaded file and of a recording, give
\* PCM of an even byte length of at most 2 x 44100 = 88200 bytes and
\* sampleRate 44100, for every input length and input sample rate.
C28_NormalizedLength ==
  returned # <<>> =>
    /\ returned[1] % 2 = 0
    /\ returned[1] \in 0..88200
    /\ returned[2] = 44100
    /\ args[1] = "recording" => returned[1] = 88200

C28_Witness ==
  /\ args = <<"file", 48001, 48000, Float(0)>>
  /\ returned = <<88200, 44100, 0>>

\* ---- isNewerVersion ----

\* the release a text was written from, if it is the text of one
C25_IsRelease(v) == \E r \in Releases : FormatVersion(r[1], r[2], r[3], r[4]) = v
C25_Release(v) == CHOOSE r \in Releases : FormatVersion(r[1], r[2], r[3], r[4]) = v

\* candidate b is greater than a: major, minor, patch, then the suffix
C25_Greater(b, a) ==
  \/ b[1] > a[1]
  \/ b[1] = a[1] /\ b[2] > a[2]
  \/ b[1] = a[1] /\ b[2] = a[2] /\ b[3] > a[3]
  \/ b[1] = a[1] /\ b[2] = a[2] /\ b[3] = a[3]
       /\ \/ b[4] >= 0 /\ a[4] < 0
          \/ b[4] >= 0 /\ a[4] >= 0 /\ b[4] > a[4]

C26_UnknownIsOutdated ==
  returned # <<>> /\ args[1] = NullVersion => returned[1] = TRUE

C26_Witness ==
  /\ args = <<NullVersion, <<"a", "b", "c">> >>
  /\ returned = <<TRUE, FALSE>>

C29_RepliesAnswerTheirFrame ==
  device.resolved => device.replyTo = device.frames

\* within one session no wait follows a timeout, so the first reply that
\* resolves a wait created for another frame answers a frame of an earlier
\* session
C29_LateAcrossSessionsFirst ==
  device.resolved /\ device.replyTo # device.frames /\ device.strays = 1
    => device.replyTo <= device.base

\* C30: a control reply (Ack, Nak, Wait or Cancel) that carries only its tag,
\* without the packet number, is recognized and resolves the outstanding
\* wait, as one that carries the packet number does.
C30_TagOnlyReplyResolves ==
  device.delivered # <<>> /\ device.outstanding => device.resolved

\* the reply with the packet number does resolve it
C30_EchoedReplyResolves ==
  Len(device.delivered) = 6 /\ device.outstanding => device.resolved

\* ======================= one session, continued =======================

\* C31: a session that streams in handshaking mode leaves it for
\* non-handshaking mode only when an awaited reply timed out (the per-packet
\* wait or the wait for the final reply after WAIT); no received reply, a
\* second WAIT after a WAIT included, switches the mode or advances the packet
\* unacknowledged.
C31_ModeLeftOnTimeoutOnly ==
  [][LET run == runs[SessionRun]
         new == runs'[SessionRun]
     IN (run.pc \in {"pktr", "finr"} /\ run.resp \in Replies) =>
          /\ (run.handshaking /\ new.pc \in InSession) => new.handshaking
          /\ new.successfulPackets > run.successfulPackets => run.resp = "ack"]_vars

\* ======================= the queue and its sessions =======================

\* C32: cancelQueue does not interrupt or alter the in-flight session: its
\* wait, its timer and its position are left as they are, and a device reply
\* that arrives after cancelQueue and before the timeout of the outstanding
\* wait still resolves that wait, that is, the listener that delivered replies
\* before the call delivers them after it.
C32_CancelLeavesSession ==
  [][CancelQueue =>
       /\ UNCHANGED <<pendingResponse, timers, timerMs, thread>>
       /\ \A r \in Runs : runs'[r] = [runs[r] EXCEPT !.cancelledAt = runs'[r].cancelledAt]
       /\ (pendingResponse # 0 /\ messageHandler) => messageHandler']_vars

\* what cancelQueue does leave alone: the wait, its timer and the position
\* of every invocation
C32_CancelLeavesWait ==
  [][CancelQueue =>
       /\ UNCHANGED <<pendingResponse, timers, timerMs, thread>>
       /\ \A r \in Runs : runs'[r] = [runs[r] EXCEPT !.cancelledAt = runs'[r].cancelledAt]]_vars

\* ---- what the listener hears ----
\* checked on ListenSpec.  A handshake reply as the protocol defines it: the
\* SysEx frame F0 7E 65 <tag> [packet number] F7 with tag Ack, Nak, Wait or
\* Cancel.
C33_IsReply(message) ==
  /\ Len(message) \in {5, 6}
  /\ message[1] = 240 /\ message[2] = 126 /\ message[3] = 101
  /\ message[4] \in {127, 126, 125, 124}
  /\ message[Len(message)] = 247

\* C33: an inbound message that is not a handshake reply of this protocol
\* (wrong framing or prefix, or a tag other than Ack/Nak/Wait/Cancel) leaves
\* the outstanding wait and its timer unchanged, and a handshake reply that
\* arrives while no wait is outstanding changes no session state.
C33_OnlyRepliesResolve ==
  [][device'.delivered # <<>> =>
       /\ ~C33_IsReply(device'.delivered) =>
            UNCHANGED <<pendingResponse, timers, timerMs, runs, thread>>
       /\ (C33_IsReply(device'.delivered) /\ pendingResponse = 0) =>
            UNCHANGED <<runs, thread, sdsVars, storeVars, wire>>]_vars

\* a dump request arrived while the wait for a data packet's reply was
\* outstanding, and the wait is still there
C33_Witness ==
  /\ device.delivered = <<240, 126, 101, 3, 0, 247>>
  /\ device.outstanding /\ ~device.resolved
  /\ pendingResponse = SessionRun /\ timers[SessionRun] = 1
  /\ runs[SessionRun].pc = "pkt"

\* an Ack arrived while no wait was outstanding: the first session sent its
\* packet without handshaking and the second entry's audio is being processed
C33_WitnessNoWait ==
  /\ C33_IsReply(device.delivered) /\ Len(device.delivered) = 6
  /\ ~device.outstanding
  /\ runs[SessionRun].pc = "processing" /\ runs[SessionRun].idx = 2

\* ---- progress reports of one session (SessionSpec) ----

C34_FrameSent == wire.run = SessionRun /\ wire.kind \in {"header", "data"}

\* C34: every frame the session sends (header, resent header, data packet,
\* resent data packet) is followed by a progress callback before the next
\* frame is sent, and after each advance the reported percentage equals
\* successfulPackets / ceil(totalBytes / 80) x 100.
C34_EverySendReported ==
  [][LET run == runs[SessionRun]
         new == runs'[SessionRun]
     IN /\ C34_FrameSent' => ~hist.unreported
        /\ (new.pc \in InSession /\ new.successfulPackets = run.successfulPackets + 1) =>
             /\ reported'.stage = "data"
             /\ reported'.percentage =
                  (new.successfulPackets * FullProgress) \div totalPackets(new.len)]_vars

\* what does hold: every advance is reported, with the packet count
\* offset / 80 over ceil(totalBytes / 80), and so is the first header, the
\* end of the transfer and nothing else
C34_AdvancesReported ==
  [][LET run == runs[SessionRun]
         new == runs'[SessionRun]
         advances == new.pc \in InSession /\ new.successfulPackets = run.successfulPackets + 1
     IN /\ advances =>
             /\ reported'.stage = "data"
             /\ reported'.packet = new.offset \div PacketBytes
             /\ reported'.totalPackets * PacketBytes >= new.len
             /\ (reported'.totalPackets - 1) * PacketBytes < new.len
             /\ reported'.percentage =
                  (reported'.packet * FullProgress) \div reported'.totalPackets
             /\ reported'.handshaking = new.handshaking
        /\ reported'.stage = "data" => advances
        /\ reported'.stage = "header" <=> (run.pc = "processing" /\ new.pc = "hdr1")
        /\ reported'.stage = "complete" <=> (hist.outcome = "" /\ hist'.outcome = "complete")]_vars

\* ---- the transport (Spec) ----

\* the step fails the entry r stands at with this message, sends no frame and
\* hands the invocation on to the next entry
C35_FailsAndGoesOn(r, message) ==
  /\ \A i \in DOMAIN queue' :
       queue'[i].id = item(r).id =>
         (queue'[i].status = "error" /\ queue'[i].error = message)
  /\ wire' = NoFrame
  /\ runs'[r].pc = "loop"
  /\ runs'[r].idx = runs[r].idx + 1
  /\ runs'[r].items = runs[r].items
  /\ thread' = r

\* C35: when no transport is bound at the moment an entry's turn comes, the
\* entry becomes error without any frame being sent and the run continues
\* with the next entry; when the output disappears during a session, the
\* session fails at its next send and sends nothing further.
C35_NoTransport ==
  [][\A r \in Runs :
       LET run == runs[r]
           turn == thread = r /\ run.pc = "loop" /\ run.idx <= Len(run.items)
           firstSend == run.pc = "processing" /\ runs'[r].pc # "processing"
           nextSend == /\ thread = r
                       /\ \/ run.pc = "hdr1r" /\ run.resp = "nak"
                          \/ run.pc = "send" /\ run.offset < run.len
       IN /\ (turn /\ ~isConnected) => C35_FailsAndGoesOn(r, NotConnected)
          /\ (firstSend /\ ~selectedOutput) =>
               \E message \in {ProcessingFailed, InvalidSlot, NoOutput} :
                 C35_FailsAndGoesOn(r, message)
          /\ (nextSend /\ ~selectedOutput) => C35_FailsAndGoesOn(r, NoOutput)
          /\ wire'.run = r => selectedOutput]_vars

\* the output went away while the first entry's session awaited the reply to
\* its header: that entry failed at its next send, and the run went on to
\* the second entry, whose header is on the wire
C35_Witness ==
  /\ Len(queue) = 2
  /\ queue[1].status = "error" /\ queue[1].error = NoOutput
  /\ queue[1].progress = HeaderProgress
  /\ queue[2].status = "uploading"
  /\ wire.kind = "header"
  /\ \E r \in Runs : runs[r].idx = 2 /\ runs[r].pc = "hdr1" /\ Len(runs[r].items) = 2

\* not connected at its turn: the first entry failed at once and the run is
\* at the second
C35_WitnessNotConnected ==
  /\ Len(queue) = 2
  /\ queue[1].status = "error" /\ queue[1].error = NotConnected /\ queue[1].progress = 0
  /\ queue[2].status = "pending"
  /\ \E r \in Runs : runs[r].idx = 2 /\ runs[r].pc = "loop" /\ thread = r

\* ---- the frames on the wire (FrameSpec) ----

\* C36: every byte between the start and end delimiters of every frame the
\* session sends (header and data packets, for slots 30..61 and PCM lengths
\* up to 88200 bytes) is at most 0x7F, and every data packet has the layout
\* [0x02, packetNumber and 0x7F, 120 payload bytes, checksum].
C36_SevenBitFrames ==
  returned # <<>> =>
    /\ returned[1] = 240 /\ returned[Len(returned)] = 247
    /\ returned[2] = 126 /\ returned[3] = 101
    /\ \A k \in 2..(Len(returned) - 1) : returned[k] \in 0..127
    /\ args[1] = "header" => (Len(returned) = 21 /\ returned[4] = 1)
    /\ args[1] = "data" =>
         /\ Len(returned) = 3 + 2 + 120 + 1 + 1
         /\ returned[4] = 2
         /\ returned[5] = args[2] % 128
         /\ returned[126] = C21_Reference(returned[5], SubSeq(returned, 6, 125))

\* packet 1102 of a buffer of full-scale samples: number 78, first payload
\* byte 0x7F
C36_Witness ==
  /\ returned # <<>> /\ args[1] = "data"
  /\ args[2] = 1102 /\ returned[5] = 78
  /\ returned[6] = 127 /\ returned[7] = 127

\* the header of 88200 bytes for slot 61: 44100 words are sent as 44 58 02
C36_WitnessHeader ==
  /\ returned # <<>> /\ args = <<"header", 61, 88200>>
  /\ SubSeq(returned, 5, 6) = <<61, 0>>
  /\ SubSeq(returned, 11, 13) = <<68, 88, 2>>

\* ---- the counters of the streaming loop (SessionSpec) ----

\* C37: at every point of the streaming loop, byte offset = 80 x
\* successfulPackets and the packet number put on the wire =
\* successfulPackets mod 128, whatever sequence of Ack, Nak, Wait and timeout
\* outcomes occurred; packets 128 apart reuse the same number.
C37_OffsetAndNumber ==
  LET run == runs[SessionRun] IN
    /\ run.pc \in InSession =>
         /\ run.offset = PacketBytes * run.successfulPackets
         /\ run.packetNum = run.successfulPackets
    /\ DataSent =>
         /\ wire.offset = PacketBytes * hist.last.successfulPackets
         /\ wire.packetNum = hist.last.successfulPackets % 128
         /\ wire.packetNum = (hist.last.successfulPackets + 128) % 128
         /\ wire.offset < run.len

\* packet 129 goes out as number 1, as packet 1 did, after a Nak and a wait
\* that timed out
C37_Witness ==
  /\ DataSent
  /\ hist.last.successfulPackets = 129 /\ wire.packetNum = 1
  /\ wire.offset = 129 * PacketBytes
  /\ hist.naks = 1 /\ hist.timedOut

\* ---- termination of a session (ResendSpec) ----

C38_Ended == Terminal(sessionEntry(queue).status)

C38_NakHeard ==
  runs[SessionRun].pc \in Resolved /\ runs[SessionRun].resp = "nak"

C38_NakToData ==
  runs[SessionRun].pc \in {"pktr", "finr"} /\ runs[SessionRun].resp = "nak"

\* C38: every session eventually reaches Complete or fails, provided timers
\* fire and the device answers Nak only finitely often; there is no bound on
\* resends, so a device that answers Nak to the same packet forever keeps the
\* session sending that packet forever.
C38_EndsUnlessNakForever ==
  /\ <>[](~C38_NakHeard) => <>C38_Ended
  /\ []<>C38_NakToData => ([]~C38_Ended /\ []<>DataSent)
  /\ \A k \in 0..(LongPackets - 1) :
       ([]<>C38_NakToData /\ <>[](runs[SessionRun].offset = k * PacketBytes))
         => []<>(DataSent /\ wire.offset = k * PacketBytes /\ wire.packetNum = k % 128)
  /\ [][C38_NakToData =>
          /\ runs' = [runs EXCEPT ![SessionRun].pc = "send", ![SessionRun].resp = ""]
          /\ UNCHANGED <<queue, sdsVars>>]_vars

\* the device has answered packet 129 with Nak
C38_Witness ==
  /\ C38_NakToData /\ ~C38_Ended
  /\ runs[SessionRun].offset = 129 * PacketBytes
  /\ runs[SessionRun].handshaking

\* without the proviso the statement fails: the device answers Nak to one
\* packet forever and the session sends that packet forever
C38_AlwaysEnds == <>C38_Ended

\* ---- the flags of the store (Spec) ----

\* C39: isUploading is true in exactly the states in which a startQueue loop
\* is active, and currentUploadId is non-null only while isUploading is true;
\* in particular isUploading is never false while a session started by the
\* queue is in progress.
C39_UploadingIffLoopActive ==
  /\ isUploading <=> \E r \in Runs : runs[r].pc # "idle"
  /\ currentUploadId # 0 => isUploading
  /\ (\E r \in Runs : runs[r].pc \in InSession) => isUploading

\* what does hold: isUploading is true only while a loop is active
C39_UploadingOnlyInLoop ==
  isUploading => \E r \in Runs : runs[r].pc # "idle"

\* C40: in every reachable queue state an entry carries an error reason if
\* and only if its status is error, and an entry with status completed has
\* progress 100 and no error reason.
C40_ErrorIffErrorStatus ==
  \A e \in Entries(queue) :
    /\ e.error # NoError <=> e.status = "error"
    /\ e.status = "completed" => (e.progress = FullProgress /\ e.error = NoError)

\* what does hold: an entry in error carries a reason, a completed entry has
\* progress 100, and an entry never cancelled and never failed carries none
C40_ErrorHasReason ==
  \A e \in Entries(queue) :
    /\ e.status = "error" => e.error # NoError
    /\ e.status = "completed" => e.progress = FullProgress
    /\ e.status = "pending" => e.error = NoError

\* a state the program reaches: the entry was cancelled during its session
\* and completed afterwards, the reason still on it
C40_CancelledThenCompleted ==
  \E e \in Entries(queue) :
    e.status = "completed" /\ e.error = CancelledByUser /\ e.progress = FullProgress

====
